---------------------------- MODULE Spec2Model ----------------------------
(***************************************************************************)
(* Asset index and reconciliation engine of SIC (src/main.py, src/itens.py)*)
(*                                                                         *)
(* Text is modelled as a sequence of one-character strings, so that        *)
(* strip(), split(), upper(), substring tests and str() are computed the   *)
(* way the Python code computes them.                                      *)
(***************************************************************************)
EXTENDS Integers, Sequences, FiniteSets, TLC

VARIABLES
    filename,           \* argument of Model.extract_room_from_filename
    room,               \* its return value
    resolved,           \* TRUE once extract_room_from_filename has returned
    disk,               \* the spreadsheet folders: their files, sheets and rows
    found_tombamentos,  \* load_spreadsheet_data: the index built so far
    file_pos,           \* load_spreadsheet_data: files enumerated so far
    load_done,          \* load_spreadsheet_data: TRUE once it has returned
    config,             \* ConfigManager.config (the keys the engine reads)
    now,                \* time.time()
    cache_file,         \* .spreadsheet_cache.pkl
    lru_memo,           \* lru_cache of get_spreadsheet_data_cached
    report_items,       \* extract_items_from_pdf(pdf_path) of the report
    tombamento_results, \* search_items_from_pdf: candidate id -> found
    itens_por_sala,     \* search_items_from_pdf: groups in insertion order
    export_data,        \* search_items_from_pdf: one entry per candidate
    printed,            \* result lines in the order they were printed
    stats,              \* generate_statistics of the last verification
    ran,                \* TRUE once a verification presented results
    search_hits,        \* rows displayed by the last search_items
    search_request,     \* arguments of the last search_items
    open_errors,        \* "Erro ao abrir arquivo" warnings of the last operation
    row_pos,            \* load_spreadsheet_data: rows of the current file done
    pdf_text,           \* page.extract_text() of each page of a report
    pdf_items,          \* extract_items_from_pdf: its return value (items)
    extracted,          \* TRUE once extract_items_from_pdf has returned
    doc,                \* page.get_text("words") of each page of a report
    markers,            \* generate_checked_pdf: the glyphs drawn, in order
    annotated,          \* TRUE once generate_checked_pdf has returned
    pc,                 \* search_items_from_pdf: position of the main thread
    loader,             \* search_items_from_pdf: state of the loader thread
    fills,              \* the fill of the first cell of every spreadsheet row
    fs_log,             \* backups, saves and exports of the last verification
    dialogs,            \* what the user answered in the last verification
    verified,           \* the verified PDF of the report, once it exists
    reports_processed,  \* current_session["reports_processed"]
    index_built,        \* time.time() when the index last supplied was built
    cleared             \* TRUE from clear_cache to the next read of the index

resolverVars == <<filename, room, resolved>>
indexVars == <<disk, found_tombamentos, file_pos, load_done, row_pos>>
cacheVars == <<now, cache_file, lru_memo>>
resultVars == <<tombamento_results, itens_por_sala, export_data, printed, stats,
                ran>>
sessionVars == <<config, now, cache_file, lru_memo, report_items,
                 tombamento_results, itens_por_sala, export_data, printed, stats,
                 ran, search_hits, search_request>>
extractVars == <<pdf_text, pdf_items, extracted>>
annotateVars == <<doc, markers, annotated>>
threadVars == <<pc, loader>>
applyVars == <<fills, fs_log, dialogs, verified, reports_processed>>
auditVars == <<index_built, cleared>>

vars == <<filename, room, resolved, disk, found_tombamentos, file_pos, load_done,
          config, now, cache_file, lru_memo, report_items,
          tombamento_results, itens_por_sala, export_data, printed, stats,
          ran, search_hits, search_request, open_errors, row_pos,
          pdf_text, pdf_items, extracted, doc, markers, annotated, pc, loader,
          fills, fs_log, dialogs, verified, reports_processed, index_built,
          cleared>>

----------------------------------------------------------------------------
(* Python str primitives                                                   *)

Whitespace == {" ", "\t"}

LowerLetters == <<"a","b","c","d","e","f","g","h","i","j","k","l","m",
                  "n","o","p","q","r","s","t","u","v","w","x","y","z">>
UpperLetters == <<"A","B","C","D","E","F","G","H","I","J","K","L","M",
                  "N","O","P","Q","R","S","T","U","V","W","X","Y","Z">>

\* str.upper() on one character
UpperChar(c) ==
    IF \E i \in 1..Len(LowerLetters) : LowerLetters[i] = c
    THEN UpperLetters[CHOOSE i \in 1..Len(LowerLetters) : LowerLetters[i] = c]
    ELSE c

\* str.upper()
Upper(s) == [i \in 1..Len(s) |-> UpperChar(s[i])]

\* str.lstrip()
RECURSIVE LStrip(_)
LStrip(s) ==
    IF s # <<>> /\ s[1] \in Whitespace THEN LStrip(Tail(s)) ELSE s

\* str.rstrip()
RECURSIVE RStrip(_)
RStrip(s) ==
    IF s # <<>> /\ s[Len(s)] \in Whitespace
    THEN RStrip(SubSeq(s, 1, Len(s) - 1))
    ELSE s

\* str.strip()
Strip(s) == RStrip(LStrip(s))

\* needle in hay
Contains(hay, needle) ==
    \E i \in 0..(Len(hay) - Len(needle)) :
        SubSeq(hay, i + 1, i + Len(needle)) = needle

\* str.endswith(suffix)
EndsWith(s, suffix) ==
    /\ Len(s) >= Len(suffix)
    /\ SubSeq(s, Len(s) - Len(suffix) + 1, Len(s)) = suffix

\* str.split(sep) for a one-character separator: empty parts are kept
RECURSIVE Split(_, _)
Split(s, sep) ==
    IF \E i \in 1..Len(s) : s[i] = sep
    THEN LET i == CHOOSE i \in 1..Len(s) :
                      s[i] = sep /\ \A k \in 1..(i - 1) : s[k] # sep
         IN <<SubSeq(s, 1, i - 1)>> \o Split(SubSeq(s, i + 1, Len(s)), sep)
    ELSE <<s>>

\* sep.join(parts)
RECURSIVE Join(_, _)
Join(parts, sep) ==
    IF parts = <<>> THEN <<>>
    ELSE IF Len(parts) = 1 THEN parts[1]
    ELSE parts[1] \o sep \o Join(Tail(parts), sep)

\* os.path.splitext(p)[0] for a bare file name (os.listdir yields names
\* without path separators): the extension starts at the last dot, unless
\* only dots precede it
SplitExtRoot(p) ==
    LET dots == {i \in 1..Len(p) : p[i] = "."}
        dotIndex == CHOOSE i \in dots : \A k \in dots : k <= i
    IN IF dots # {} /\ \E k \in 1..(dotIndex - 1) : p[k] # "."
       THEN SubSeq(p, 1, dotIndex - 1)
       ELSE p

\* re.sub(r"\(.*?\)", "", name): leftmost, non-greedy, non-overlapping
RECURSIVE RemoveParens(_)
RemoveParens(s) ==
    IF s = <<>> THEN <<>>
    ELSE IF s[1] = "(" /\ \E j \in 2..Len(s) : s[j] = ")"
    THEN LET j == CHOOSE j \in 2..Len(s) :
                      s[j] = ")" /\ \A k \in 2..(j - 1) : s[k] # ")"
         IN RemoveParens(SubSeq(s, j + 1, Len(s)))
    ELSE <<s[1]>> \o RemoveParens(Tail(s))

----------------------------------------------------------------------------
(* Model.extract_room_from_filename                                        *)

\* the keyword list of the loop
RoomKeywords ==
    { <<"C","E","D","U","C">>, <<"N","E","O","A">>,
      <<"S","U","P","O","R","T","E">>, <<"G","A","B","I","N","E","T","E">>,
      <<"P","R","O","F">>, <<"D","O","C","E","N","T","E">>,
      <<"A","L">>, <<"A","N","A">>,
      <<"C","A","R","O","L","I","N","A">>,
      <<"R","O","D","R","I","G","U","E","S">>,
      <<"O","L","I","V","E","I","R","A">> }

\* any(keyword in upper for keyword in [...]) with upper = part.upper()
HasRoomKeyword(part) ==
    \E keyword \in RoomKeywords : Contains(Upper(part), keyword)

\* name after splitext, re.sub and strip
CleanName(fname) == Strip(RemoveParens(SplitExtRoot(fname)))

\* parts = [p.strip() for p in name.split("_") if p.strip()]
RoomParts(fname) ==
    LET raw == Split(CleanName(fname), "_")
        stripped == [i \in 1..Len(raw) |-> Strip(raw[i])]
    IN SelectSeq(stripped, LAMBDA p : p # <<>>)

\* the break condition of the loop body for (i, part), i counted from 0
RoomLoop_breakOnFirst(i, part) == i >= 0 /\ HasRoomKeyword(part)

RoomLoopBreaks(i, part) == i > 0 /\ HasRoomKeyword(part)

\* the for loop: room_parts accumulated until the break
RECURSIVE RoomLoop(_, _, _)
RoomLoop(parts, i, room_parts) ==
    IF i >= Len(parts) THEN room_parts
    ELSE IF RoomLoopBreaks(i, parts[i + 1]) THEN room_parts
    ELSE RoomLoop(parts, i + 1, Append(room_parts, parts[i + 1]))

extract_room_from_filename(fname) ==
    LET parts == RoomParts(fname)
    IN IF parts = <<>>
       THEN CleanName(fname)
       ELSE Join(RoomLoop(parts, 0, <<>>), <<" ">>)

----------------------------------------------------------------------------
(* Cell values as openpyxl returns them (values_only=True)                 *)

NoneCell == [t |-> "none", n |-> 0, s |-> <<>>]
IntCell(n) == [t |-> "int", n |-> n, s |-> <<>>]
StrCell(s) == [t |-> "str", n |-> 0, s |-> s]

\* Python truth value of a cell: None, 0 and "" are false
Truthy(c) ==
    CASE c.t = "none" -> FALSE
      [] c.t = "int" -> c.n # 0
      [] OTHER -> c.s # <<>>

Digits == <<"0","1","2","3","4","5","6","7","8","9">>

\* str(n) for an integer
RECURSIVE NatToStr(_)
NatToStr(n) ==
    IF n < 10 THEN <<Digits[n + 1]>>
    ELSE NatToStr(n \div 10) \o <<Digits[(n % 10) + 1]>>

\* str(value)
PyStr(c) ==
    CASE c.t = "none" -> <<"N","o","n","e">>
      [] c.t = "int" -> IF c.n < 0 THEN <<"-">> \o NatToStr(-c.n) ELSE NatToStr(c.n)
      [] OTHER -> c.s

\* str(row[i]).strip() if row[i] else ""   (i counted from 0, as in Python)
CellText_noStrip(row, i) ==
    IF Truthy(row[i + 1]) THEN PyStr(row[i + 1]) ELSE <<>>

CellText(row, i) ==
    IF Truthy(row[i + 1]) THEN Strip(PyStr(row[i + 1])) ELSE <<>>

----------------------------------------------------------------------------
(* Model.load_spreadsheet_data                                             *)

\* SPREADSHEET_FOLDERS, by position
SpreadsheetFolders == {1, 2, 3}

XLSX == <<".","x","l","s","x">>

EmptyIndex == [k \in {} |-> <<>>]

\* found_tombamentos[tombamento_cell] = sala
IndexPut_replacesAll(index, key, sala) == [k \in {key} |-> sala]

IndexPut(index, key, sala) ==
    [k \in DOMAIN index \cup {key} |-> IF k = key THEN sala ELSE index[k]]

\* lines 959-962 for one row of a file
LoadRow_lastWins(index, file, row) ==
    LET tombamento_cell == CellText(row, 2)
    IN IF tombamento_cell # <<>>
       THEN IndexPut(index, tombamento_cell, extract_room_from_filename(file.name))
       ELSE index

LoadRow(index, file, row) ==
    LET tombamento_cell == CellText(row, 2)
    IN IF tombamento_cell # <<>> /\ tombamento_cell \notin DOMAIN index
       THEN IndexPut(index, tombamento_cell, extract_room_from_filename(file.name))
       ELSE index

\* the rows the inner for loop visits: all of the sheet, from row 2 on
RowsVisited_stopAtBlank(rows) ==
    LET blank == {i \in 1..Len(rows) : Len(rows[i]) >= 3 /\ CellText(rows[i], 2) = <<>>}
    IN IF blank = {} THEN rows
       ELSE SubSeq(rows, 1, (CHOOSE i \in blank : \A j \in blank : i <= j) - 1)

RowsVisited(rows) == rows

\* for row in sheet.iter_rows(min_row=2, values_only=True)
RECURSIVE LoadRows(_, _, _)
LoadRows(index, file, rows) ==
    IF rows = <<>> THEN index
    ELSE LET row == Head(rows)
             next == IF Len(row) = 0 \/ Len(row) < 3
                     THEN index
                     ELSE LoadRow(index, file, row)
         IN LoadRows(next, file, Tail(rows))

\* for sheet_name in workbook.sheetnames
RECURSIVE LoadSheets(_, _, _)
LoadSheets(index, file, sheets) ==
    IF sheets = <<>> THEN index
    ELSE LoadSheets(LoadRows(index, file, RowsVisited(Head(sheets))), file, Tail(sheets))

\* one iteration of "for file in os.listdir(folder)"
LoadFile_dropsIndex(index, file) ==
    IF ~EndsWith(file.name, XLSX) THEN index
    ELSE IF ~file.readable THEN EmptyIndex
    ELSE LoadSheets(index, file, file.sheets)

LoadFile(index, file) ==
    IF ~EndsWith(file.name, XLSX) THEN index
    ELSE IF ~file.readable THEN index
    ELSE LoadSheets(index, file, file.sheets)

\* the two nested loops over folders and files; a folder that does not
\* exist lists no files
RECURSIVE LoadFiles(_, _)
LoadFiles(index, files) ==
    IF files = <<>> THEN index
    ELSE LoadFiles(LoadFile(index, Head(files)), Tail(files))

\* os.listdir(folder): the files of one folder, in directory order
FolderFiles(d, folder) == SelectSeq(d.files, LAMBDA file : file.folder = folder)

\* one iteration of "for folder in SPREADSHEET_FOLDERS": a folder that
\* does not exist is passed over
LoadFolder(index, d, folder) ==
    IF ~d.exists[folder] THEN index
    ELSE LoadFiles(index, FolderFiles(d, folder))

RECURSIVE LoadFolders(_, _, _)
LoadFolders(index, d, folder) ==
    IF folder \notin SpreadsheetFolders THEN index
    ELSE LoadFolders(LoadFolder(index, d, folder), d, folder + 1)

load_spreadsheet_data(d) == LoadFolders(EmptyIndex, d, 1)

\* show_message("warning", "Erro ao abrir arquivo", file) for one file
FileOpenErrors(file) ==
    IF EndsWith(file.name, XLSX) /\ ~file.readable THEN <<file.name>> ELSE <<>>

\* the open warnings load_spreadsheet_data shows, in enumeration order
RECURSIVE OpenErrors(_)
OpenErrors(files) ==
    IF files = <<>> THEN <<>>
    ELSE FileOpenErrors(Head(files)) \o OpenErrors(Tail(files))

----------------------------------------------------------------------------
(* The spreadsheet folders the index is built from                         *)

MaxFiles == 3
MaxRows == 2

S100 == <<"1","0","0">>
S200 == <<"2","0","0">>
Filler == StrCell(<<"x">>)

\* a row of the given width whose third cell is the tombamento cell
MkRow(width, tomb) == [i \in 1..width |-> IF i = 3 THEN tomb ELSE Filler]

\* directory entries in os.listdir order, folder by folder
FileSlots ==
    << [folder |-> 1, name |-> <<"A">> \o XLSX],
       [folder |-> 1, name |-> <<"B","_","P","R","O","F">> \o XLSX],
       [folder |-> 2, name |-> <<"A">> \o XLSX],
       [folder |-> 2, name |-> <<"C",".","t","x","t">>],
       [folder |-> 3, name |-> <<"C"," ","(","1",")">> \o XLSX] >>

Corrupt == [readable |-> FALSE, sheets |-> <<>>]
Book(sheets) == [readable |-> TRUE, sheets |-> sheets]

\* workbooks of the multi-file disks
Workbooks ==
    { Corrupt,
      Book(<< <<MkRow(8, StrCell(S100))>> >>),
      Book(<< <<MkRow(8, StrCell(S200)), MkRow(8, StrCell(<<" ">> \o S100 \o <<" ">>))>> >>),
      Book(<< <<MkRow(3, NoneCell), MkRow(3, IntCell(100))>>, <<MkRow(8, StrCell(S200))>> >>) }

\* tombamento cells of the single-file disks
TombCells ==
    { StrCell(S100), StrCell(<<" ">> \o S100 \o <<" ">>), IntCell(100), StrCell(S200),
      NoneCell, IntCell(0), StrCell(<<>>), StrCell(<<" "," ">>) }

SeqsUpTo(S, n) == UNION { [1..k -> S] : k \in 0..n }

\* one sheet has one width (max_column): all its rows are equally long
RichSheets ==
    { [i \in 1..Len(cells) |-> MkRow(w, cells[i])] :
          cells \in SeqsUpTo(TombCells, MaxRows), w \in {3, 8} }
    \cup { [i \in 1..k |-> <<Filler, Filler>>] : k \in 1..MaxRows }

MkFile(slot, book) ==
    [folder |-> FileSlots[slot].folder, name |-> FileSlots[slot].name,
     readable |-> book.readable, sheets |-> book.sheets]

\* an increasing choice of slots, each with a workbook
MultiFileLists ==
    UNION { { [i \in 1..k |-> MkFile(slots[i], books[i])] :
                slots \in { f \in [1..k -> 1..Len(FileSlots)] :
                               \A i \in 1..(k - 1) : f[i] < f[i + 1] },
                books \in [1..k -> Workbooks] } : k \in 0..MaxFiles }

SingleFileLists == { <<MkFile(1, Book(<<sh>>))>> : sh \in RichSheets }

\* folders that hold no file may also be missing altogether
EmptyFolders(files) ==
    { f \in SpreadsheetFolders : \A i \in 1..Len(files) : files[i].folder # f }

MkDisk(files, missing) ==
    [files |-> files, exists |-> [f \in SpreadsheetFolders |-> f \notin missing]]

Disks ==
    { MkDisk(files, {}) : files \in MultiFileLists \cup SingleFileLists }
    \cup { MkDisk(files, EmptyFolders(files)) : files \in MultiFileLists }

----------------------------------------------------------------------------
(* PerformanceOptimizer                                                    *)

\* default_config["performance"]["cache_ttl"]
CacheTTL == 3600

NoMemo == [hit |-> FALSE, data |-> EmptyIndex]
NoCacheFile == [present |-> FALSE, timestamp |-> 0, data |-> EmptyIndex]

\* the cache file is used when it exists and is younger than cache_ttl
CacheFileFresh == cache_file.present /\ (now - cache_file.timestamp) < CacheTTL

\* the body of get_spreadsheet_data_cached, run on an lru_cache miss
\* (built: the time at which the index it returns was built)
\* lines 228-237: the index just built is pickled with the current time
SaveCache(data) ==
    [data |-> data,
     file |-> [present |-> TRUE, timestamp |-> now, data |-> data],
     errors |-> OpenErrors(disk.files), built |-> now]

CachedBody ==
    IF ~config.cache_enabled
    THEN [data |-> load_spreadsheet_data(disk), file |-> cache_file,
          errors |-> OpenErrors(disk.files), built |-> now]
    ELSE IF CacheFileFresh
    THEN [data |-> cache_file.data, file |-> cache_file, errors |-> <<>>,
          built |-> cache_file.timestamp]
    ELSE SaveCache(load_spreadsheet_data(disk))

\* @lru_cache(maxsize=1): the value the body returned is kept
Memoize(body) ==
    [data |-> body.data,
     memo |-> [hit |-> TRUE, data |-> body.data],
     file |-> body.file,
     errors |-> body.errors,
     built |-> body.built]

\* get_spreadsheet_data_cached: the value returned, the lru_cache and the
\* cache file after the call
GetSpreadsheetDataCached ==
    IF lru_memo.hit
    THEN [data |-> lru_memo.data, memo |-> lru_memo, file |-> cache_file,
          errors |-> <<>>, built |-> index_built]
    ELSE Memoize(CachedBody)

\* the slices items[i:i + batch_size] for i in range(0, total, batch_size)
RECURSIVE Batches_dropsShortBatch(_, _)
Batches_dropsShortBatch(items, batch_size) ==
    IF Len(items) < batch_size THEN <<>>
    ELSE <<SubSeq(items, 1, batch_size)>>
             \o Batches_dropsShortBatch(SubSeq(items, batch_size + 1, Len(items)),
                                        batch_size)

RECURSIVE Batches(_, _)
Batches(items, batch_size) ==
    IF items = <<>> THEN <<>>
    ELSE IF Len(items) <= batch_size THEN <<items>>
    ELSE <<SubSeq(items, 1, batch_size)>>
             \o Batches(SubSeq(items, batch_size + 1, Len(items)), batch_size)

----------------------------------------------------------------------------
(* EnhancedController.search_items_from_pdf                                *)

NAO_ENCONTRADO == <<"N","Ã","O"," ","E","N","C","O","N","T","R","A","D","O">>

EmptyResults == [k \in {} |-> FALSE]

\* the dictionaries and lists process_batch closes over
FreshAcc_keepsExport(index) ==
    [found_tombamentos |-> index, tombamento_results |-> EmptyResults,
     itens_por_sala |-> <<>>, export_data |-> export_data]

FreshAcc(index) ==
    [found_tombamentos |-> index, tombamento_results |-> EmptyResults,
     itens_por_sala |-> <<>>, export_data |-> <<>>]

\* tombamento in found_tombamentos
IsFound_inValues(index, tombamento) ==
    \E k \in DOMAIN index : index[k] = tombamento

IsFound(index, tombamento) == tombamento \in DOMAIN index

\* itens_por_sala[sala].append(entry) on a defaultdict(list)
GroupAppend_prepends(groups, sala, entry) ==
    IF \E g \in 1..Len(groups) : groups[g].sala = sala
    THEN [g \in 1..Len(groups) |->
             IF groups[g].sala = sala
             THEN [sala |-> sala, itens |-> <<entry>> \o groups[g].itens]
             ELSE groups[g]]
    ELSE Append(groups, [sala |-> sala, itens |-> <<entry>>])

GroupAppend(groups, sala, entry) ==
    IF \E g \in 1..Len(groups) : groups[g].sala = sala
    THEN [g \in 1..Len(groups) |->
             IF groups[g].sala = sala
             THEN [sala |-> sala, itens |-> Append(groups[g].itens, entry)]
             ELSE groups[g]]
    ELSE Append(groups, [sala |-> sala, itens |-> <<entry>>])

\* what the not-found branch leaves in found_tombamentos
IndexAfterMiss_inserts(index, tombamento) == IndexPut(index, tombamento, NAO_ENCONTRADO)

IndexAfterMiss(index, tombamento) == index

\* the body of the loop of process_batch for one item
ProcessItem(acc, item) ==
    LET tombamento == item.tombamento
        denominacao == item.denominacao
        status == IsFound(acc.found_tombamentos, tombamento)
        sala == IF status THEN acc.found_tombamentos[tombamento] ELSE NAO_ENCONTRADO
        entry == [status |-> status, tombamento |-> tombamento,
                  denominacao |-> denominacao, sala |-> sala]
    IN [found_tombamentos |->
            IF status THEN acc.found_tombamentos
            ELSE IndexAfterMiss(acc.found_tombamentos, tombamento),
        tombamento_results |->
            [k \in DOMAIN acc.tombamento_results \cup {tombamento} |->
                IF k = tombamento THEN status ELSE acc.tombamento_results[k]],
        itens_por_sala |-> GroupAppend(acc.itens_por_sala, sala, entry),
        export_data |-> Append(acc.export_data, entry)]

\* process_batch(batch)
RECURSIVE ProcessBatch(_, _)
ProcessBatch(acc, batch) ==
    IF batch = <<>> THEN acc
    ELSE ProcessBatch(ProcessItem(acc, Head(batch)), Tail(batch))

\* batch_process(report_items, process_batch, batch_size)
RECURSIVE BatchProcess(_, _)
BatchProcess(acc, batches) ==
    IF batches = <<>> THEN acc
    ELSE BatchProcess(ProcessBatch(acc, Head(batches)), Tail(batches))

\* the lines printed by the loop over itens_por_sala.items()
RECURSIVE PrintedLines(_)
PrintedLines(groups) ==
    IF groups = <<>> THEN <<>>
    ELSE Head(groups).itens \o PrintedLines(Tail(groups))

\* EnhancedFeatures.generate_statistics
generate_statistics(results, groups) ==
    LET total == Cardinality(DOMAIN results)
        found == Cardinality({k \in DOMAIN results : results[k]})
    IN [total |-> total, found |-> found, not_found |-> total - found,
        \* the percentages, in whole percent
        percentage_found |-> IF total > 0 THEN (found * 100) \div total ELSE 0,
        percentage_not_found |-> IF total > 0 THEN ((total - found) * 100) \div total ELSE 0,
        rooms |-> [g \in 1..Len(groups) |->
                      [sala |-> groups[g].sala, count |-> Len(groups[g].itens)]]]

NoStats == [total |-> 0, found |-> 0, not_found |-> 0,
            percentage_found |-> 0, percentage_not_found |-> 0, rooms |-> <<>>]

----------------------------------------------------------------------------
(* BackupSystem.create_backup, apply_results_to_spreadsheets and the end   *)
(* of search_items_from_pdf                                                *)

\* GOOD_FILL and BAD_FILL of EnhancedController (fgColor); NO_FILL is the
\* fill of a cell nobody filled
GOOD_FILL == "FFC6EFCE"
BAD_FILL == "FFFFC7CE"
NO_FILL == "none"

\* every data row of every sheet of every file: (file, sheet, row)
RowPositions(d) ==
    UNION { UNION { { <<f, sh, r>> : r \in 1..Len(d.files[f].sheets[sh]) }
                    : sh \in 1..Len(d.files[f].sheets) }
            : f \in 1..Len(d.files) }

\* no row has a fill, no dialog was answered, no verified PDF exists
NoFills == [p \in RowPositions(disk) |-> NO_FILL]
NoDialogs == [apply |-> FALSE, danger |-> FALSE, export |-> "nao"]
NoVerified == [exists |-> FALSE, results |-> EmptyResults]

\* "for folder in SPREADSHEET_FOLDERS ... for file in os.listdir(folder)":
\* the .xlsx files of the folders that exist, as positions in d.files
RECURSIVE ScanOrder(_, _)
ScanOrder(d, folder) ==
    IF folder \notin SpreadsheetFolders THEN <<>>
    ELSE (IF d.exists[folder]
          THEN SelectSeq([i \in 1..Len(d.files) |-> i],
                         LAMBDA i : /\ d.files[i].folder = folder
                                    /\ EndsWith(d.files[i].name, XLSX))
          ELSE <<>>) \o ScanOrder(d, folder + 1)

\* BackupSystem.create_backup(description, files_to_backup): the backup it
\* returns a path for, or nothing when it returns None: automatic backups
\* are off, no file was copied, or shutil.copy2 raised
CreateBackup(d, description, files_to_backup, copy_ok) ==
    LET copied == SelectSeq(ScanOrder(d, 1),
                      LAMBDA f : files_to_backup = {} \/ d.files[f].name \in files_to_backup)
    IN IF ~config.auto_backup \/ copied = <<>> \/ ~copy_ok THEN <<>>
       ELSE << [op |-> description, file |-> 0] >>

\* target_cell.fill = self.GOOD_FILL if status else self.BAD_FILL
FillFor_alwaysGood(status) == GOOD_FILL

FillFor(status) == IF status THEN GOOD_FILL ELSE BAD_FILL

\* the rows of workbook f from sheet sh on, in the order of the two loops
RECURSIVE PositionsFrom(_, _, _)
PositionsFrom(d, f, sh) ==
    IF sh > Len(d.files[f].sheets) THEN <<>>
    ELSE [r \in 1..Len(d.files[f].sheets[sh]) |-> <<f, sh, r>>]
             \o PositionsFrom(d, f, sh + 1)

\* the row loop over one workbook: the fills set, file_changes, and whether
\* row[2] raised IndexError (a sheet of fewer than 3 columns)
RECURSIVE ApplyRows(_, _, _, _)
ApplyRows(d, results, positions, wb) ==
    IF positions = <<>> \/ wb.raised THEN wb
    ELSE LET p == Head(positions)
             row == d.files[p[1]].sheets[p[2]][p[3]]
         IN IF Len(row) < 3 THEN [wb EXCEPT !.raised = TRUE]
            ELSE IF row[3] = NoneCell THEN ApplyRows(d, results, Tail(positions), wb)
            ELSE LET tombamento == Strip(PyStr(row[3]))
                 IN IF tombamento \in DOMAIN results
                    THEN ApplyRows(d, results, Tail(positions),
                             [wb EXCEPT !.fills[p] = FillFor(results[tombamento]),
                                        !.file_changes = @ + 1])
                    ELSE ApplyRows(d, results, Tail(positions), wb)

\* the end of the row loop of workbook f: wb.save when file_changes > 0;
\* an exception leaves the workbook unsaved
SaveWorkbook(st, f, wb) ==
    IF wb.raised THEN [st EXCEPT !.raised = TRUE]
    ELSE IF wb.file_changes > 0
    THEN [st EXCEPT !.fills = wb.fills,
                    !.log = Append(@, [op |-> "save", file |-> f])]
    ELSE st

\* the file loop: a workbook that cannot be opened is passed over, one with
\* changes is saved; an exception leaves the files after it untouched
RECURSIVE ApplyFiles(_, _, _, _)
ApplyFiles(d, results, order, st) ==
    IF order = <<>> \/ st.raised THEN st
    ELSE IF ~d.files[Head(order)].readable THEN ApplyFiles(d, results, Tail(order), st)
    ELSE ApplyFiles(d, results, Tail(order),
             SaveWorkbook(st, Head(order),
                 ApplyRows(d, results, PositionsFrom(d, Head(order), 1),
                     [fills |-> st.fills, file_changes |-> 0, raised |-> FALSE])))

\* lines 1336-1341: the backup of the modified files after the loop
BackupAfter(d, copy_ok, done) ==
    LET modified_files == { d.files[done.log[i].file].name : i \in 1..Len(done.log) }
    IN IF done.raised \/ modified_files = {} THEN done
       ELSE [done EXCEPT !.log =
                @ \o CreateBackup(d, "backup_after", modified_files, copy_ok)]

\* EnhancedController.apply_results_to_spreadsheets: the fills on disk and
\* the saves and the backup made, after the dangerous-operation dialog
apply_results_to_spreadsheets(d, results, fl, danger, copy_ok) ==
    IF ~danger THEN [fills |-> fl, log |-> <<>>, raised |-> FALSE]
    ELSE BackupAfter(d, copy_ok,
             ApplyFiles(d, results, ScanOrder(d, 1),
                 [fills |-> fl, log |-> <<>>, raised |-> FALSE]))

\* lines 1273-1277: generate_checked_pdf is called when the output file does
\* not exist; the file it writes is determined by the results
CheckedPdf_overwrites(existing, results) == [exists |-> TRUE, results |-> results]

CheckedPdf(existing, results) ==
    IF existing.exists THEN existing ELSE [exists |-> TRUE, results |-> results]

\* format_choice in ["excel", "csv", "json"]
ExportFormats == {"excel", "csv", "json"}

\* safe_execute caught an exception and logged it
ErrorEvent == [op |-> "error", file |-> 0]

\* lines 1255-1279. a: the answers to the two apply dialogs and to the
\* export dialog ("nao", or the format typed after "sim"); copy_ok: whether
\* shutil.copy2 succeeds during this verification
FinishWith(a, before, applied) ==
    LET exported == IF a.export \in ExportFormats
                    THEN << [op |-> "export", file |-> 0] >> ELSE <<>>
    IN /\ fills' = applied.fills
       /\ IF applied.raised
          THEN /\ fs_log' = before \o applied.log \o <<ErrorEvent>>
               /\ dialogs' = [apply |-> TRUE, danger |-> TRUE, export |-> "nao"]
               /\ UNCHANGED <<verified, reports_processed>>
          ELSE /\ fs_log' = before \o applied.log \o exported
               /\ dialogs' = [a EXCEPT !.danger = a.apply /\ a.danger]
               /\ verified' = CheckedPdf(verified, tombamento_results')
               /\ reports_processed' = reports_processed + 1

\* lines 1255-1260: the backup before the changes and the application
FinishRun(a, copy_ok) ==
    FinishWith(a,
        IF a.apply /\ config.backup_before_changes
        THEN CreateBackup(disk, "backup_before", {}, copy_ok) ELSE <<>>,
        IF a.apply
        THEN apply_results_to_spreadsheets(disk, tombamento_results', fills,
                                           a.danger, copy_ok)
        ELSE [fills |-> fills, log |-> <<>>, raised |-> FALSE])

\* verifications per session
MaxReports == 2

\* lines 1182-1253: the index is read, the candidates are reconciled in
\* batches, the result lines and the statistics are presented
Presented(got, acc) ==
    /\ lru_memo' = [got.memo EXCEPT !.data = acc.found_tombamentos]
    /\ cache_file' = got.file
    /\ tombamento_results' = acc.tombamento_results
    /\ itens_por_sala' = acc.itens_por_sala
    /\ export_data' = acc.export_data
    /\ printed' = PrintedLines(acc.itens_por_sala)
    /\ stats' = generate_statistics(acc.tombamento_results, acc.itens_por_sala)
    /\ open_errors' = got.errors
    /\ index_built' = got.built

\* lines 1191-1234: the candidates are reconciled against the index read
Reconcile(got) ==
    Presented(got, BatchProcess(FreshAcc(got.data),
                                Batches(report_items, config.batch_size)))

\* lines 1182-1253, from the read of the index on
PresentResults ==
    /\ Reconcile(GetSpreadsheetDataCached)
    /\ cleared' = FALSE
    /\ ran' = TRUE

\* search_items_from_pdf as one step: the loader thread is started and
\* joined inside it, and no loader thread is left when it returns
SearchItemsFromPdf(a, copy_ok) ==
    /\ pc = "idle"
    /\ report_items # <<>>
    /\ reports_processed < MaxReports
    /\ PresentResults
    /\ FinishRun(a, copy_ok)
    /\ UNCHANGED <<config, now, report_items, search_hits, search_request,
                   row_pos, resolverVars, disk, found_tombamentos, file_pos,
                   load_done, extractVars, annotateVars, threadVars>>

\* search_items_from_pdf on a report without items: it returns before the
\* index is read and presents nothing
SearchItemsFromPdfEmpty ==
    /\ pc = "idle"
    /\ report_items = <<>>
    /\ UNCHANGED vars

----------------------------------------------------------------------------
(* EnhancedController.search_items                                         *)

\* the comparison of one cell with the search value
RowMatches_alwaysUpper(row, column_index, value) ==
    LET search_value == Upper(Strip(value))
        cell_value == Upper(CellText(row, column_index))
    IN IF config.partial_match
       THEN Contains(cell_value, search_value)
       ELSE cell_value = search_value

RowMatches(row, column_index, value) ==
    LET original_value == Strip(value)
        search_value == IF ~config.case_sensitive THEN Upper(original_value)
                        ELSE original_value
        text == CellText(row, column_index)
        cell_value == IF ~config.case_sensitive THEN Upper(text) ELSE text
    IN IF config.partial_match
       THEN Contains(cell_value, search_value)
       ELSE cell_value = search_value

\* the rows of one sheet that are displayed, numbered from 2
SheetHits(file, sheet_no, rows, column_index, value) ==
    LET hit(i) == /\ Len(rows[i]) >= 8
                  /\ RowMatches(rows[i], column_index, value)
        idx == SelectSeq([i \in 1..Len(rows) |-> i], hit)
    IN [n \in 1..Len(idx) |->
           [folder |-> file.folder, file |-> file.name, sheet |-> sheet_no,
            row_index |-> idx[n] + 1, row |-> rows[idx[n]]]]

RECURSIVE FileHits(_, _, _, _)
FileHits(file, sheet_no, column_index, value) ==
    IF sheet_no > Len(file.sheets) THEN <<>>
    ELSE SheetHits(file, sheet_no, file.sheets[sheet_no], column_index, value)
             \o FileHits(file, sheet_no + 1, column_index, value)

\* the loops over folders and files, every file scanned to its end
RECURSIVE SearchHits_stopAtFirst(_, _, _)
SearchHits_stopAtFirst(files, column_index, value) ==
    IF files = <<>> THEN <<>>
    ELSE LET file == Head(files)
             hits == IF EndsWith(file.name, XLSX) /\ file.readable
                     THEN FileHits(file, 1, column_index, value)
                     ELSE <<>>
         IN IF hits # <<>> THEN <<Head(hits)>>
            ELSE SearchHits_stopAtFirst(Tail(files), column_index, value)

RECURSIVE SearchHits(_, _, _)
SearchHits(files, column_index, value) ==
    IF files = <<>> THEN <<>>
    ELSE LET file == Head(files)
             hits == IF EndsWith(file.name, XLSX) /\ file.readable
                     THEN FileHits(file, 1, column_index, value)
                     ELSE <<>>
         IN hits \o SearchHits(Tail(files), column_index, value)

\* SEARCH_COLUMNS: the column indexes a search can use
SearchColumns == {2, 3, 4, 5}

\* no search_items call yet
NoRequest == [column_index |-> 0, value |-> <<>>]

\* lines 1083-1084: the cached index is read before the scan
IndexRefreshed(got) ==
    /\ lru_memo' = got.memo /\ cache_file' = got.file
    /\ open_errors' = got.errors
    /\ index_built' = got.built /\ cleared' = FALSE

SearchItems(column_index, value) ==
    /\ IF config.cache_enabled
       THEN IndexRefreshed(GetSpreadsheetDataCached)
       ELSE /\ UNCHANGED <<lru_memo, cache_file, auditVars>>
            /\ open_errors' = OpenErrors(disk.files)
    /\ search_hits' = SearchHits(disk.files, column_index, value)
    /\ search_request' = [column_index |-> column_index, value |-> value]
    /\ UNCHANGED <<config, now, report_items, resultVars, resolverVars, indexVars,
                   extractVars, annotateVars, threadVars, applyVars>>

----------------------------------------------------------------------------
(* Configuration changes                                                   *)

\* handle_configuration, option 1
ToggleCache ==
    /\ config' = [config EXCEPT !.cache_enabled = ~@]
    /\ UNCHANGED <<cacheVars, report_items, resultVars, search_hits,
                   search_request, open_errors, resolverVars, indexVars,
                   extractVars, annotateVars, threadVars, applyVars, auditVars>>

\* handle_configuration, option 3
ToggleAutoBackup ==
    /\ config' = [config EXCEPT !.auto_backup = ~@]
    /\ UNCHANGED <<cacheVars, report_items, resultVars, search_hits,
                   search_request, open_errors, resolverVars, indexVars,
                   extractVars, annotateVars, threadVars, applyVars, auditVars>>

\* ConfigManager.set(value, "search", key)
SetSearchFlag(key, value) ==
    /\ config[key] # value
    /\ config' = [config EXCEPT ![key] = value]
    /\ UNCHANGED <<cacheVars, report_items, resultVars, search_hits,
                   search_request, open_errors, resolverVars, indexVars,
                   extractVars, annotateVars, threadVars, applyVars, auditVars>>

----------------------------------------------------------------------------
(* A session: one report, the spreadsheet folders, the stored cache        *)

MaxItems == 3
MaxBatch == 2

T1 == <<"1","0","0","0","0","1">>
T2 == <<"1","0","0","0","0","2">>
T3 == <<"1","0","0","0","0","3">>
T9 == <<"9","9","9","9","9","9">>

ROOM_OLD == <<"O","L","D">>

\* candidates as extract_items_from_pdf emits them
ReportItemSet ==
    { [tombamento |-> T1, denominacao |-> <<"P","C">>],
      [tombamento |-> T3, denominacao |-> <<"T","V">>],
      [tombamento |-> T9, denominacao |-> <<"P","C">>] }

\* T1 is carried by both files, T2 with a leading blank, T3 as a number
SessionFiles ==
    { << MkFile(1, Book(<< <<MkRow(8, StrCell(T1)), MkRow(8, IntCell(100003))>> >>)),
         MkFile(2, Book(<< <<MkRow(8, StrCell(<<" ">> \o T2)),
                             MkRow(8, StrCell(T1))>> >>)) >> }

\* an index pickled by an earlier session
StoredIndex == [k \in {T1, T9} |-> ROOM_OLD]

\* time.time() when the session starts
SessionStart == 3 * CacheTTL

\* no cache file, or one written less than cache_ttl ago
CacheFiles ==
    { NoCacheFile,
      [present |-> TRUE, timestamp |-> SessionStart - CacheTTL + 1, data |-> StoredIndex] }

SearchValues == { <<" ">> \o T1 }

DefaultConfig ==
    [cache_enabled |-> TRUE, batch_size |-> 50,
     partial_match |-> TRUE, case_sensitive |-> FALSE,
     auto_backup |-> TRUE, backup_before_changes |-> TRUE]

\* the user declines to apply and to export; every copy succeeds
DeclineAll == { [apply |-> FALSE, danger |-> FALSE, export |-> "nao"] }

NoPdfText == <<>>
NoDoc == <<>>

\* the variables of the operations a specification does not run
IdleLookup == search_request = NoRequest /\ open_errors = <<>>
IdleExtract == pdf_text = NoPdfText /\ pdf_items = <<>> /\ extracted = FALSE
IdleAnnotate == doc = NoDoc /\ markers = <<>> /\ annotated = FALSE
IdleThread == pc = "idle" /\ loader = "none"
IdleApply ==
    /\ fills = NoFills /\ fs_log = <<>> /\ dialogs = NoDialogs
    /\ verified = NoVerified /\ reports_processed = 0
IdleAudit == index_built = 0 /\ cleared = FALSE

Init ==
    /\ disk \in { MkDisk(files, {}) : files \in SessionFiles }
    /\ config \in { [DefaultConfig EXCEPT !.batch_size = b] : b \in 1..MaxBatch }
    /\ now = SessionStart
    /\ cache_file \in CacheFiles
    /\ lru_memo = NoMemo
    /\ report_items \in SeqsUpTo(ReportItemSet, MaxItems)
    /\ tombamento_results = EmptyResults
    /\ itens_por_sala = <<>>
    /\ export_data = <<>>
    /\ printed = <<>>
    /\ stats = NoStats
    /\ ran = FALSE
    /\ search_hits = <<>>
    /\ found_tombamentos = EmptyIndex /\ file_pos = 0 /\ load_done = FALSE
    /\ row_pos = 0
    /\ filename = <<>> /\ room = <<>> /\ resolved = FALSE
    /\ IdleLookup /\ IdleExtract /\ IdleAnnotate /\ IdleThread /\ IdleApply /\ IdleAudit

Next ==
    \/ \E a \in DeclineAll : SearchItemsFromPdf(a, TRUE)
    \/ SearchItemsFromPdfEmpty
    \/ \E c \in SearchColumns, v \in SearchValues : SearchItems(c, v)
    \/ ToggleCache
    \/ \E key \in {"partial_match", "case_sensitive"}, value \in BOOLEAN :
           SetSearchFlag(key, value)

Spec == Init /\ [][Next]_vars

----------------------------------------------------------------------------
(* Index construction, file by file                                        *)

InitIndex ==
    /\ disk \in Disks
    /\ found_tombamentos = EmptyIndex
    /\ file_pos = 0
    /\ load_done = FALSE
    /\ row_pos = 0
    /\ IdleLookup /\ IdleExtract /\ IdleAnnotate /\ IdleThread /\ IdleApply /\ IdleAudit
    /\ filename = <<>> /\ room = <<>> /\ resolved = FALSE
    /\ config = DefaultConfig
    /\ now = SessionStart
    /\ cache_file = NoCacheFile
    /\ lru_memo = NoMemo
    /\ report_items = <<>>
    /\ tombamento_results = EmptyResults
    /\ itens_por_sala = <<>>
    /\ export_data = <<>>
    /\ printed = <<>>
    /\ stats = NoStats
    /\ ran = FALSE
    /\ search_hits = <<>>

\* one iteration of the file loop of load_spreadsheet_data
LoadStep ==
    /\ ~load_done
    /\ file_pos < Len(disk.files)
    /\ found_tombamentos' = LoadFile(found_tombamentos, disk.files[file_pos + 1])
    /\ file_pos' = file_pos + 1
    /\ open_errors' = open_errors \o FileOpenErrors(disk.files[file_pos + 1])
    /\ UNCHANGED <<disk, load_done, row_pos, resolverVars, sessionVars,
                   extractVars, annotateVars, threadVars, applyVars, auditVars>>

\* return found_tombamentos
LoadReturn ==
    /\ ~load_done
    /\ file_pos = Len(disk.files)
    /\ load_done' = TRUE
    /\ UNCHANGED <<disk, found_tombamentos, file_pos, row_pos, open_errors,
                   resolverVars, sessionVars, extractVars, annotateVars,
                   threadVars, applyVars, auditVars>>

NextIndex == LoadStep \/ LoadReturn

SpecIndex == InitIndex /\ [][NextIndex]_vars

----------------------------------------------------------------------------
(* Index construction, row by row                                          *)

\* the rows the two inner loops visit in one file, sheet after sheet
RECURSIVE FileRows(_)
FileRows(sheets) ==
    IF sheets = <<>> THEN <<>>
    ELSE RowsVisited(Head(sheets)) \o FileRows(Tail(sheets))

\* the file is passed over: not .xlsx, or load_workbook raises
FileSkipped(file) == ~EndsWith(file.name, XLSX) \/ ~file.readable

\* one iteration of "for row in sheet.iter_rows(...)"
LoadRowStep ==
    /\ ~load_done
    /\ file_pos < Len(disk.files)
    /\ LET file == disk.files[file_pos + 1]
       IN /\ ~FileSkipped(file)
          /\ row_pos < Len(FileRows(file.sheets))
          /\ found_tombamentos' =
                 LoadRows(found_tombamentos, file, <<FileRows(file.sheets)[row_pos + 1]>>)
    /\ row_pos' = row_pos + 1
    /\ UNCHANGED <<disk, file_pos, load_done, open_errors, resolverVars, sessionVars,
                   extractVars, annotateVars, threadVars, applyVars, auditVars>>

\* the file loop moves on: past a skipped file, or after the last row
LoadFileEnd ==
    /\ ~load_done
    /\ file_pos < Len(disk.files)
    /\ LET file == disk.files[file_pos + 1]
       IN /\ FileSkipped(file) \/ row_pos = Len(FileRows(file.sheets))
          /\ open_errors' = open_errors \o FileOpenErrors(file)
    /\ file_pos' = file_pos + 1
    /\ row_pos' = 0
    /\ UNCHANGED <<disk, found_tombamentos, load_done, resolverVars, sessionVars,
                   extractVars, annotateVars, threadVars, applyVars, auditVars>>

NextIndexRows == LoadRowStep \/ LoadFileEnd \/ LoadReturn

SpecIndexRows == InitIndex /\ [][NextIndexRows]_vars

----------------------------------------------------------------------------
(* itens.extract_items_from_pdf                                            *)

\* str.lower() on one character
LowerChar(c) ==
    IF \E i \in 1..Len(UpperLetters) : UpperLetters[i] = c
    THEN LowerLetters[CHOOSE i \in 1..Len(UpperLetters) : UpperLetters[i] = c]
    ELSE IF c = "Ú" THEN "ú" ELSE IF c = "É" THEN "é" ELSE c

\* str.lower()
Lower(s) == [i \in 1..Len(s) |-> LowerChar(s[i])]

\* str.startswith(prefix)
StartsWith(s, prefix) ==
    Len(s) >= Len(prefix) /\ SubSeq(s, 1, Len(prefix)) = prefix

NUMERO_DE_SERIE ==
    <<"n","ú","m","e","r","o"," ","d","e"," ","s","é","r","i","e">>

\* \d
IsDigit(c) == \E i \in 1..Len(Digits) : Digits[i] = c

\* \s
IsSpace(c) == c \in Whitespace

\* \d{2}/\d{2}/\d{4} matched at position p
DateAt(s, p) ==
    /\ p >= 1 /\ p + 9 <= Len(s)
    /\ IsDigit(s[p]) /\ IsDigit(s[p + 1]) /\ s[p + 2] = "/"
    /\ IsDigit(s[p + 3]) /\ IsDigit(s[p + 4]) /\ s[p + 5] = "/"
    /\ IsDigit(s[p + 6]) /\ IsDigit(s[p + 7]) /\ IsDigit(s[p + 8]) /\ IsDigit(s[p + 9])

\* the characters from position p on that all are digits (blanks): the
\* longest run a greedy \d{6,} (\s+) can take
DigitRun(s, p) ==
    CHOOSE n \in 0..(Len(s) - p + 1) :
        /\ \A i \in p..(p + n - 1) : IsDigit(s[i])
        /\ (p + n > Len(s) \/ ~IsDigit(s[p + n]))

SpaceRun(s, p) ==
    CHOOSE n \in 0..(Len(s) - p + 1) :
        /\ \A i \in p..(p + n - 1) : IsSpace(s[i])
        /\ (p + n > Len(s) \/ ~IsSpace(s[p + n]))

\* re.match(r"^(\d{6,})\s+(.+?)\s+\d{2}/\d{2}/\d{4}", line): the first
\* successful attempt in backtracking order: the digit run and the first
\* blank run as long as possible, the description as short as possible
ReMatch(line) ==
    LET attempts ==
            UNION { UNION { UNION { { <<n, k, m, j>> :
                j \in { x \in 1..SpaceRun(line, n + k + m + 1) :
                            DateAt(line, n + k + m + x + 1) } }
                : m \in 1..(Len(line) - n - k) }
                : k \in 1..SpaceRun(line, n + 1) }
                : n \in 6..DigitRun(line, 1) }
        earlier(a, b) ==
            \/ a[1] > b[1]
            \/ a[1] = b[1] /\ a[2] > b[2]
            \/ a[1] = b[1] /\ a[2] = b[2] /\ a[3] < b[3]
            \/ a[1] = b[1] /\ a[2] = b[2] /\ a[3] = b[3] /\ a[4] >= b[4]
    IN IF attempts = {}
       THEN [matched |-> FALSE, group1 |-> <<>>, group2 |-> <<>>]
       ELSE LET a == CHOOSE x \in attempts : \A y \in attempts : earlier(x, y)
            IN [matched |-> TRUE,
                group1 |-> SubSeq(line, 1, a[1]),
                group2 |-> SubSeq(line, a[1] + a[2] + 1, a[1] + a[2] + a[3])]

\* the body of "for line in lines"
ExtractLine(raw) ==
    LET line == Strip(raw)
    IN IF line = <<>> \/ StartsWith(Lower(line), NUMERO_DE_SERIE) THEN <<>>
       ELSE LET match == ReMatch(line)
            IN IF match.matched
               THEN << [tombamento |-> match.group1,
                        denominacao |-> Strip(match.group2)] >>
               ELSE <<>>

RECURSIVE ExtractLines(_)
ExtractLines(lines) ==
    IF lines = <<>> THEN <<>>
    ELSE ExtractLine(Head(lines)) \o ExtractLines(Tail(lines))

\* one page: a page without text is passed over
ExtractPage(text) ==
    IF text = <<>> THEN <<>> ELSE ExtractLines(Split(text, "\n"))

\* pdf_text: the extract_text() of each page of the opened report
RECURSIVE extract_items_from_pdf(_)
extract_items_from_pdf(pages) ==
    IF pages = <<>> THEN <<>>
    ELSE ExtractPage(Head(pages)) \o extract_items_from_pdf(Tail(pages))

----------------------------------------------------------------------------
(* Report lines: an id, blanks, a description, blanks, a date, a rest      *)

MaxPages == 2
MaxLines == 2

D6 == <<"1","2","3","4","5","6">>
DATE1 == <<"2","3","/","1","1","/","2","0","1","7">>
DATE2 == <<"2","4","/","1","1","/","2","0","1","7">>
PC == <<"P","C">>

LineIds == { D6, <<"1","2","3","4","5">>, D6 \o <<"7">>, D6 \o <<"A">> }
LineBlanks == { <<>>, <<" ">>, <<" "," "," ">> }
LineDescriptions == { <<>>, PC, <<"T","V"," ","A">>, DATE1 \o <<" ","X">> }
LineDates == { <<>>, DATE1, <<"3","/","1","1","/","2","0","1","7">>, DATE1 \o <<"5">> }
LineRests == { <<>>, <<" ","X","Y","Z">>, <<" ">> \o DATE2 }

ShapedLines ==
    { lead \o id \o b1 \o desc \o b2 \o date \o rest :
        lead \in { <<>>, <<" ">> }, id \in LineIds, b1 \in LineBlanks,
        desc \in LineDescriptions, b2 \in LineBlanks, date \in LineDates,
        rest \in LineRests }

TELEFONE_IP_LINE ==
    <<"2","0","1","7","0","0","4","6","8","7"," ","T","E","L","E","F","O","N","E",
      " ","I","P"," ">> \o DATE1 \o <<" ","X","Y","Z">>

HEADER_LINE == <<"N","ú","m","e","r","o"," ","d","e"," ","S","é","r","i","e"," ">> \o D6

\* the lines of the multi-page reports
FewLines ==
    { D6 \o <<" ">> \o PC \o <<" ">> \o DATE1,
      D6 \o <<"7"," ","T","V"," ">> \o DATE2,
      HEADER_LINE }

NEWLINE == <<"\n">>

\* the text of a page with the given lines
PageText(lines) == Join(lines, NEWLINE)

PdfTexts ==
    { <<PageText(<<line>>)>> : line \in ShapedLines \cup {TELEFONE_IP_LINE, HEADER_LINE} }
    \cup SeqsUpTo({ PageText(lines) : lines \in SeqsUpTo(FewLines, MaxLines) }, MaxPages)

InitExtract ==
    /\ pdf_text \in PdfTexts
    /\ pdf_items = <<>>
    /\ extracted = FALSE
    /\ disk = MkDisk(<<>>, {})
    /\ found_tombamentos = EmptyIndex /\ file_pos = 0 /\ load_done = FALSE
    /\ row_pos = 0
    /\ filename = <<>> /\ room = <<>> /\ resolved = FALSE
    /\ config = DefaultConfig
    /\ now = SessionStart
    /\ cache_file = NoCacheFile
    /\ lru_memo = NoMemo
    /\ report_items = <<>>
    /\ tombamento_results = EmptyResults
    /\ itens_por_sala = <<>>
    /\ export_data = <<>>
    /\ printed = <<>>
    /\ stats = NoStats
    /\ ran = FALSE
    /\ search_hits = <<>>
    /\ IdleLookup /\ IdleAnnotate /\ IdleThread /\ IdleApply /\ IdleAudit

ExtractItems ==
    /\ ~extracted
    /\ pdf_items' = extract_items_from_pdf(pdf_text)
    /\ extracted' = TRUE
    /\ UNCHANGED <<pdf_text, resolverVars, indexVars, sessionVars, open_errors,
                   annotateVars, threadVars, applyVars, auditVars>>

NextExtract == ExtractItems

SpecExtract == InitExtract /\ [][NextExtract]_vars

----------------------------------------------------------------------------
(* Model.generate_checked_pdf                                              *)
(* Lengths are in tenths of a point, colours in thousandths.               *)

\* GREEN = (0.0, 0.6, 0.25), RED = (0.75, 0.15, 0.15)
GREEN == <<0, 600, 250>>
RED == <<750, 150, 150>>

ICON_X == 16
ICON_SIZE == 8
\* STROKE = 1.5
STROKE == 15

\* page.draw_line(p1, p2, color=color, width=width)
DrawLine(p1, p2, color, width) ==
    [from |-> p1, to |-> p2, color |-> color, width |-> width]

\* Model.draw_check: x and y in tenths, size in points
draw_check(x, y, size, color, width) ==
    << DrawLine(<<x - 4 * size, y>>, <<x - size, y + 4 * size>>, color, width),
       DrawLine(<<x - size, y + 4 * size>>, <<x + 5 * size, y - 5 * size>>, color, width) >>

\* Model.draw_x
draw_x(x, y, size, color, width) ==
    << DrawLine(<<x - 5 * size, y - 5 * size>>, <<x + 5 * size, y + 5 * size>>, color, width),
       DrawLine(<<x - 5 * size, y + 5 * size>>, <<x + 5 * size, y - 5 * size>>, color, width) >>

\* center_y = (y0 + y1) / 2
CenterY_top(w) == 10 * w.y0

CenterY(w) == 5 * (w.y0 + w.y1)

\* color = GREEN if found else RED
MarkerColor_alwaysGreen(found) == GREEN

MarkerColor(found) == IF found THEN GREEN ELSE RED

\* the glyph drawn for word w of page pg; page, tombamento, block and
\* line_no record the loop variables of the draw
Marker(pg, tombamento, found, w) ==
    LET center_y == CenterY(w)
        color == MarkerColor(found)
    IN [page |-> pg, tombamento |-> tombamento, block |-> w.block, line_no |-> w.line_no,
        x |-> 10 * ICON_X, y |-> center_y, size |-> ICON_SIZE,
        lines |-> IF found
                  THEN draw_check(10 * ICON_X, center_y, ICON_SIZE, color, STROKE)
                  ELSE draw_x(10 * ICON_X, center_y, ICON_SIZE, color, STROKE)]

\* for w in line_words
RECURSIVE WordMarkers(_, _, _, _, _)
WordMarkers(pg, words, tombamento, found, line_words) ==
    IF line_words = <<>> THEN <<>>
    ELSE LET w == Head(line_words)
             same_line == SelectSeq(words, LAMBDA word :
                              word.block = w.block /\ word.line_no = w.line_no)
             drawn == IF same_line = <<>> THEN <<>> ELSE <<Marker(pg, tombamento, found, w)>>
         IN drawn \o WordMarkers(pg, words, tombamento, found, Tail(line_words))

\* for tombamento, found in tombamento_results.items()
RECURSIVE CandidateMarkers(_, _, _, _)
CandidateMarkers(pg, words, keys, results) ==
    IF keys = <<>> THEN <<>>
    ELSE LET tombamento == Head(keys)
             line_words == SelectSeq(words, LAMBDA w : Contains(w.text, tombamento))
         IN WordMarkers(pg, words, tombamento, results[tombamento], line_words)
                \o CandidateMarkers(pg, words, Tail(keys), results)

\* for page in doc
RECURSIVE PageMarkers(_, _, _, _)
PageMarkers(pages, pg, keys, results) ==
    IF pg > Len(pages) THEN <<>>
    ELSE CandidateMarkers(pg, pages[pg], keys, results)
             \o PageMarkers(pages, pg + 1, keys, results)

\* the keys of tombamento_results in insertion order: the candidate ids in
\* the order of their first occurrence in the report
RECURSIVE KeysInOrder(_, _)
KeysInOrder(report, seen) ==
    IF report = <<>> THEN <<>>
    ELSE IF Head(report).tombamento \in seen THEN KeysInOrder(Tail(report), seen)
    ELSE <<Head(report).tombamento>>
             \o KeysInOrder(Tail(report), seen \cup {Head(report).tombamento})

GenerateCheckedPdf ==
    /\ ~annotated
    /\ markers' = PageMarkers(doc, 1, KeysInOrder(report_items, {}), tombamento_results)
    /\ annotated' = TRUE
    /\ UNCHANGED <<doc, resolverVars, indexVars, sessionVars, open_errors,
                   extractVars, threadVars, applyVars, auditVars>>

----------------------------------------------------------------------------
(* Reports to annotate: pages of words with their boxes, blocks and lines  *)

ID1 == <<"1","0","0","0","0","1">>
ID9 == <<"9","9","9","9","9","9">>
\* a seven-digit identifier that begins with ID1
ID10 == ID1 \o <<"0">>

\* a word of get_text("words"): (x0, y0, x1, y1, text, block, line_no, word_no)
Word(text, block, line_no, y0) ==
    [text |-> text, block |-> block, line_no |-> line_no, y0 |-> y0, y1 |-> y0 + 11]

DocPages ==
    { << Word(ID1, 0, 0, 100), Word(PC, 0, 0, 100),
         Word(ID9, 0, 1, 120), Word(PC, 0, 1, 120) >>,
      << Word(ID1, 0, 0, 100), Word(ID1 \o <<"-","B">>, 0, 0, 100) >>,
      << Word(PC, 0, 0, 100) >>,
      << Word(ID9, 0, 0, 100), Word(ID1, 1, 0, 300) >>,
      << Word(ID10, 0, 0, 100), Word(PC, 0, 0, 100) >>,
      << >> }

AnnotatedReports ==
    { << [tombamento |-> ID1, denominacao |-> PC], [tombamento |-> ID9, denominacao |-> PC] >>,
      << [tombamento |-> ID9, denominacao |-> PC], [tombamento |-> ID1, denominacao |-> PC],
         [tombamento |-> ID9, denominacao |-> PC] >>,
      << [tombamento |-> ID1, denominacao |-> PC], [tombamento |-> ID10, denominacao |-> PC] >> }

\* the candidate ids of a report: the keys of its reconciliation result
ReportIds(report) == { report[i].tombamento : i \in 1..Len(report) }

InitAnnotate ==
    /\ doc \in SeqsUpTo(DocPages, MaxPages)
    /\ report_items \in AnnotatedReports
    /\ tombamento_results \in [ReportIds(report_items) -> BOOLEAN]
    /\ markers = <<>>
    /\ annotated = FALSE
    /\ disk = MkDisk(<<>>, {})
    /\ found_tombamentos = EmptyIndex /\ file_pos = 0 /\ load_done = FALSE
    /\ row_pos = 0
    /\ filename = <<>> /\ room = <<>> /\ resolved = FALSE
    /\ config = DefaultConfig
    /\ now = SessionStart
    /\ cache_file = NoCacheFile
    /\ lru_memo = NoMemo
    /\ itens_por_sala = <<>>
    /\ export_data = <<>>
    /\ printed = <<>>
    /\ stats = NoStats
    /\ ran = FALSE
    /\ search_hits = <<>>
    /\ IdleLookup /\ IdleExtract /\ IdleThread /\ IdleApply /\ IdleAudit

NextAnnotate == GenerateCheckedPdf

SpecAnnotate == InitAnnotate /\ [][NextAnnotate]_vars

----------------------------------------------------------------------------
(* search_items_from_pdf, statement by statement, with its loader thread   *)

\* lines 1165-1173: the loader thread is created and started
PdfBegin ==
    /\ pc = "idle"
    /\ reports_processed < MaxReports
    /\ pc' = "started"
    /\ loader' = "started"
    /\ UNCHANGED <<resolverVars, indexVars, sessionVars, open_errors, extractVars,
                   annotateVars, applyVars, auditVars>>

\* the thread body, EnhancedView.show_message("loading", "Processando..."):
\* it prints and returns, or dies with an exception; it writes no data
LoaderRun ==
    /\ loader = "started"
    /\ loader' \in {"finished", "failed"}
    /\ UNCHANGED <<pc, resolverVars, indexVars, sessionVars, open_errors, extractVars,
                   annotateVars, applyVars, auditVars>>

\* line 1175: report_items = extract_items_from_pdf(pdf_path)
PdfExtract ==
    /\ pc = "started"
    /\ report_items' = extract_items_from_pdf(pdf_text)
    /\ pc' = "extracted"
    /\ UNCHANGED <<loader, config, cacheVars, resultVars, search_hits, search_request,
                   resolverVars, indexVars, open_errors, extractVars, annotateVars, applyVars, auditVars>>

\* line 1175 raising (the report cannot be opened): safe_execute returns
\* None, the thread is left unjoined and nothing is presented
PdfExtractRaises ==
    /\ pc = "started"
    /\ pc' = "idle"
    /\ fs_log' = <<ErrorEvent>>
    /\ UNCHANGED <<loader, resolverVars, indexVars, sessionVars, open_errors,
                   extractVars, annotateVars, fills, dialogs, verified,
                   reports_processed, auditVars>>

\* loader.join() returns once the thread has terminated
JoinReturns_noWait(thread) == TRUE

JoinReturns(thread) == thread \in {"finished", "failed"}

\* line 1176
PdfJoin ==
    /\ pc = "extracted"
    /\ JoinReturns(loader)
    /\ pc' = "joined"
    /\ UNCHANGED <<loader, resolverVars, indexVars, sessionVars, open_errors,
                   extractVars, annotateVars, applyVars, auditVars>>

\* lines 1178-1279: nothing for an empty report, else the results, the
\* dialogs and the verified PDF
PdfPresent(a, copy_ok) ==
    /\ pc = "joined"
    /\ pc' = "idle"
    /\ IF report_items = <<>>
       THEN UNCHANGED <<cache_file, lru_memo, resultVars, open_errors, auditVars,
                        applyVars>>
       ELSE PresentResults /\ FinishRun(a, copy_ok)
    /\ UNCHANGED <<loader, config, now, report_items, search_hits, search_request,
                   resolverVars, indexVars, extractVars, annotateVars>>

\* the reports of the stepwise verification
VerifyLine(id) == id \o <<" ">> \o PC \o <<" ">> \o DATE1

VerifyTexts ==
    { << >>,
      << PageText(<<VerifyLine(T1), VerifyLine(T9)>>) >>,
      << PageText(<<VerifyLine(T9)>>), PageText(<<VerifyLine(T3), VerifyLine(T1)>>) >> }

InitVerify ==
    /\ pdf_text \in VerifyTexts
    /\ pdf_items = <<>> /\ extracted = FALSE
    /\ disk \in { MkDisk(files, {}) : files \in SessionFiles }
    /\ config \in { [DefaultConfig EXCEPT !.batch_size = b] : b \in 1..MaxBatch }
    /\ now = SessionStart
    /\ cache_file \in CacheFiles
    /\ lru_memo = NoMemo
    /\ report_items = <<>>
    /\ tombamento_results = EmptyResults
    /\ itens_por_sala = <<>>
    /\ export_data = <<>>
    /\ printed = <<>>
    /\ stats = NoStats
    /\ ran = FALSE
    /\ search_hits = <<>>
    /\ found_tombamentos = EmptyIndex /\ file_pos = 0 /\ load_done = FALSE
    /\ row_pos = 0
    /\ filename = <<>> /\ room = <<>> /\ resolved = FALSE
    /\ IdleLookup /\ IdleAnnotate /\ IdleThread /\ IdleApply /\ IdleAudit

NextVerify ==
    \/ PdfBegin
    \/ LoaderRun
    \/ PdfExtract
    \/ PdfExtractRaises
    \/ PdfJoin
    \/ \E a \in DeclineAll : PdfPresent(a, TRUE)
    \/ ToggleCache

SpecVerify == InitVerify /\ [][NextVerify]_vars

----------------------------------------------------------------------------
(* Lookups: folders with matching, non-matching, narrow and corrupt files  *)

TxtAb == <<"A","b">>
TxtB == <<"B">>

\* a row of 8 cells with the given tombamento and patrimonio cells
LookupRow(tomb, patr) ==
    [i \in 1..8 |-> IF i = 3 THEN tomb ELSE IF i = 4 THEN patr ELSE Filler]

LookupRows ==
    { LookupRow(StrCell(TxtAb), NoneCell),
      LookupRow(StrCell(<<" ","a","b"," ">>), StrCell(TxtAb)),
      LookupRow(StrCell(<<"c","A","B">>), IntCell(0)),
      LookupRow(NoneCell, StrCell(TxtB)) }

LookupSheets == { [i \in 1..k |-> rows[i]] : rows \in [1..2 -> LookupRows], k \in 1..2 }

\* a sheet with 3 columns: its rows are too short for search_items
NarrowSheet == <<MkRow(3, StrCell(TxtAb))>>

LookupSheetsFew ==
    { <<LookupRow(StrCell(TxtAb), NoneCell)>>,
      <<LookupRow(NoneCell, StrCell(TxtB)), LookupRow(StrCell(<<"c","A","B">>), IntCell(0))>> }

LookupFileLists ==
    { <<MkFile(1, Book(<<sh>>))>> : sh \in LookupSheets }
    \cup { <<MkFile(1, Book(<<NarrowSheet, sh1>>)), MkFile(2, Corrupt),
             MkFile(4, Book(<<sh1>>)), MkFile(5, Book(<<sh2>>))>> :
               sh1 \in LookupSheetsFew, sh2 \in LookupSheetsFew }

LookupValues == { <<"a","b">>, <<" ","A","b">>, TxtB }

InitLookup ==
    /\ disk \in { MkDisk(files, EmptyFolders(files)) : files \in LookupFileLists }
    /\ config = DefaultConfig
    /\ now = SessionStart
    /\ cache_file = NoCacheFile
    /\ lru_memo = NoMemo
    /\ report_items = <<>>
    /\ tombamento_results = EmptyResults
    /\ itens_por_sala = <<>>
    /\ export_data = <<>>
    /\ printed = <<>>
    /\ stats = NoStats
    /\ ran = FALSE
    /\ search_hits = <<>>
    /\ found_tombamentos = EmptyIndex /\ file_pos = 0 /\ load_done = FALSE
    /\ row_pos = 0
    /\ filename = <<>> /\ room = <<>> /\ resolved = FALSE
    /\ IdleLookup /\ IdleExtract /\ IdleAnnotate /\ IdleThread /\ IdleApply /\ IdleAudit

NextLookup ==
    \/ \E c \in SearchColumns, v \in LookupValues : SearchItems(c, v)
    \/ ToggleCache
    \/ \E key \in {"partial_match", "case_sensitive"}, value \in BOOLEAN :
           SetSearchFlag(key, value)

SpecLookup == InitLookup /\ [][NextLookup]_vars

----------------------------------------------------------------------------
(* The cache over a session: verifications, the clock, clear_cache         *)

MaxTicks == 2

\* time.time() moves on by half a validity window
TickStep == CacheTTL \div 2

Tick ==
    /\ now < SessionStart + MaxTicks * TickStep
    /\ now' = now + TickStep
    /\ UNCHANGED <<config, cache_file, lru_memo, report_items, resultVars,
                   search_hits, search_request, open_errors, resolverVars,
                   indexVars, extractVars, annotateVars, threadVars, applyVars,
                   auditVars>>

\* EnhancedController.clear_cache: after the confirmation,
\* PerformanceOptimizer.clear_cache removes the cache file
ClearCache(answer) ==
    /\ IF answer
       THEN cache_file' = NoCacheFile /\ cleared' = TRUE
       ELSE UNCHANGED <<cache_file, cleared>>
    /\ UNCHANGED <<config, now, lru_memo, index_built, report_items, resultVars,
                   search_hits, search_request, open_errors, resolverVars,
                   indexVars, extractVars, annotateVars, threadVars, applyVars>>

\* a cache file whose age is exactly cache_ttl when the session starts
StaleCacheFile ==
    [present |-> TRUE, timestamp |-> SessionStart - CacheTTL, data |-> StoredIndex]

CacheReports ==
    { << [tombamento |-> T1, denominacao |-> <<"P","C">>],
         [tombamento |-> T3, denominacao |-> <<"T","V">>] >>,
      << [tombamento |-> T9, denominacao |-> <<"P","C">>] >> }

InitCache ==
    /\ disk \in { MkDisk(files, {}) : files \in SessionFiles }
    /\ config = DefaultConfig
    /\ now = SessionStart
    /\ cache_file \in CacheFiles \cup {StaleCacheFile}
    /\ lru_memo = NoMemo
    /\ report_items \in CacheReports
    /\ tombamento_results = EmptyResults
    /\ itens_por_sala = <<>>
    /\ export_data = <<>>
    /\ printed = <<>>
    /\ stats = NoStats
    /\ ran = FALSE
    /\ search_hits = <<>>
    /\ found_tombamentos = EmptyIndex /\ file_pos = 0 /\ load_done = FALSE
    /\ row_pos = 0
    /\ filename = <<>> /\ room = <<>> /\ resolved = FALSE
    /\ IdleLookup /\ IdleExtract /\ IdleAnnotate /\ IdleThread /\ IdleApply /\ IdleAudit

NextCache ==
    \/ \E a \in DeclineAll : SearchItemsFromPdf(a, TRUE)
    \/ Tick
    \/ \E answer \in BOOLEAN : ClearCache(answer)
    \/ ToggleCache

SpecCache == InitCache /\ [][NextCache]_vars

----------------------------------------------------------------------------
(* Index construction over the listing os.listdir returns                  *)

DirectoryOrders(n) ==
    { f \in [1..n -> 1..n] : \A i, j \in 1..n : i # j => f[i] # f[j] }

\* os.listdir returns the entries of a folder in arbitrary order: the
\* directory orders one set of folders and files can be read in
Listings(d) ==
    { [d EXCEPT !.files = [i \in 1..Len(d.files) |-> d.files[perm[i]]]] :
          perm \in DirectoryOrders(Len(d.files)) }

\* Model.load_spreadsheet_data from its first line to its return, over the
\* listing the folders give this time
BuildIndex ==
    /\ \E listing \in Listings(disk) :
           /\ found_tombamentos' = load_spreadsheet_data(listing)
           /\ open_errors' = OpenErrors(listing.files)
    /\ file_pos' = Len(disk.files)
    /\ load_done' = TRUE
    /\ UNCHANGED <<disk, row_pos, resolverVars, sessionVars, extractVars,
                   annotateVars, threadVars, applyVars, auditVars>>

NextListing == BuildIndex

SpecListing == InitIndex /\ [][NextListing]_vars

----------------------------------------------------------------------------
(* Verifications that apply their results                                  *)

\* A.xlsx carries T1 and T3, B_PROF.xlsx carries T2 only (or cannot be
\* opened), A.xlsx of folder 2 has a sheet of 2 columns, C (1).xlsx
\* carries T9 in a sheet of 3 columns
RunFileLists ==
    { << MkFile(1, Book(<< <<MkRow(8, StrCell(T1)), MkRow(8, IntCell(100003))>> >>)),
         MkFile(2, Book(<< <<MkRow(8, StrCell(<<" ">> \o T2)), MkRow(8, NoneCell)>> >>)),
         MkFile(5, Book(<< <<MkRow(3, StrCell(T9 \o <<" ">>))>> >>)) >>,
      << MkFile(1, Book(<< <<MkRow(8, StrCell(T1)), MkRow(8, IntCell(100003))>> >>)),
         MkFile(2, Corrupt),
         MkFile(3, Book(<< << <<Filler, Filler>> >> >>)),
         MkFile(5, Book(<< <<MkRow(3, StrCell(T9 \o <<" ">>))>> >>)) >>,
      << MkFile(2, Book(<< <<MkRow(8, StrCell(<<" ">> \o T2)), MkRow(8, NoneCell)>> >>)) >> }

\* "nao", or "sim" followed by a format
ExportAnswers == {"nao", "json", "pdf"}

Answers == [apply : BOOLEAN, danger : BOOLEAN, export : ExportAnswers]

\* a verified PDF left by an earlier session
OldVerified == [exists |-> TRUE, results |-> [k \in {T1} |-> FALSE]]

InitRun ==
    /\ disk \in { MkDisk(files, {}) : files \in RunFileLists }
    /\ config \in { [DefaultConfig EXCEPT !.batch_size = MaxBatch, !.auto_backup = ab,
                                          !.backup_before_changes = bb] :
                       ab \in BOOLEAN, bb \in BOOLEAN }
    /\ now = SessionStart
    /\ cache_file \in CacheFiles
    /\ lru_memo = NoMemo
    /\ report_items \in SeqsUpTo(ReportItemSet, MaxItems - 1)
    /\ tombamento_results = EmptyResults
    /\ itens_por_sala = <<>>
    /\ export_data = <<>>
    /\ printed = <<>>
    /\ stats = NoStats
    /\ ran = FALSE
    /\ search_hits = <<>>
    /\ found_tombamentos = EmptyIndex /\ file_pos = 0 /\ load_done = FALSE
    /\ row_pos = 0
    /\ filename = <<>> /\ room = <<>> /\ resolved = FALSE
    /\ IdleLookup /\ IdleExtract /\ IdleAnnotate /\ IdleThread /\ IdleAudit
    /\ fills = NoFills /\ fs_log = <<>> /\ dialogs = NoDialogs
    /\ verified \in {NoVerified, OldVerified}
    /\ reports_processed = 0

NextRun ==
    \/ \E a \in Answers, copy_ok \in BOOLEAN : SearchItemsFromPdf(a, copy_ok)
    \/ SearchItemsFromPdfEmpty
    \/ ToggleAutoBackup

SpecRun == InitRun /\ [][NextRun]_vars

----------------------------------------------------------------------------
(* File names given to the resolver: concatenations of a few pieces        *)

MaxPieces == 4

NamePieces ==
    { <<"S","A","L","A"," ","1","2">>,
      <<"_","P","R","O","F">>,
      <<"_","J","O","A","O">>,
      <<" ","(","2","0","2","4",")">>,
      <<".","x","l","s","x">>,
      <<"A","L","M","O","X","A","R","I","F","A","D","O">>,
      <<"_">>,
      <<"_","a","l"," ">> }

RECURSIVE Concat(_)
Concat(pieces) ==
    IF pieces = <<>> THEN <<>> ELSE pieces[1] \o Concat(Tail(pieces))

ResolverInputs ==
    { Concat(ps) : ps \in UNION { [1..n -> NamePieces] : n \in 1..MaxPieces } }

InitResolver ==
    /\ filename \in ResolverInputs
    /\ room = <<>>
    /\ resolved = FALSE
    /\ disk = MkDisk(<<>>, {})
    /\ found_tombamentos = EmptyIndex
    /\ file_pos = 0
    /\ load_done = FALSE
    /\ row_pos = 0
    /\ IdleLookup /\ IdleExtract /\ IdleAnnotate /\ IdleThread /\ IdleApply /\ IdleAudit
    /\ config = DefaultConfig
    /\ now = SessionStart
    /\ cache_file = NoCacheFile
    /\ lru_memo = NoMemo
    /\ report_items = <<>>
    /\ tombamento_results = EmptyResults
    /\ itens_por_sala = <<>>
    /\ export_data = <<>>
    /\ printed = <<>>
    /\ stats = NoStats
    /\ ran = FALSE
    /\ search_hits = <<>>

Resolve ==
    /\ ~resolved
    /\ room' = extract_room_from_filename(filename)
    /\ resolved' = TRUE
    /\ UNCHANGED <<filename, indexVars, sessionVars, open_errors,
                   extractVars, annotateVars, threadVars, applyVars, auditVars>>

NextResolver == Resolve

SpecResolver == InitResolver /\ [][NextResolver]_vars

----------------------------------------------------------------------------
(* Index construction properties                                           *)

\* all rows of a file, sheet after sheet
RECURSIVE AllRows(_)
AllRows(sheets) ==
    IF sheets = <<>> THEN <<>> ELSE Head(sheets) \o AllRows(Tail(sheets))

\* a tombamento cell that holds no identifier: None, 0, "" or only blanks
BlankTombamento(c) ==
    \/ c.t = "none"
    \/ c.t = "int" /\ c.n = 0
    \/ c.t = "str" /\ \A i \in 1..Len(c.s) : c.s[i] \in Whitespace

\* a row the record extractor skips
SkippedRow(row) == Len(row) < 3 \/ BlankTombamento(row[3])

\* the trimmed identifiers a source file contributes
FileKeys(file) ==
    IF EndsWith(file.name, XLSX) /\ file.readable
    THEN LET rows == AllRows(file.sheets)
         IN { Strip(PyStr(rows[i][3])) : i \in { j \in 1..Len(rows) : ~SkippedRow(rows[j]) } }
    ELSE {}

\* the first file, in enumeration order, with a row carrying key k
FirstFileWith(files, k) ==
    CHOOSE i \in 1..Len(files) :
        k \in FileKeys(files[i]) /\ \A j \in 1..(i - 1) : k \notin FileKeys(files[j])

FilesDone == SubSeq(disk.files, 1, file_pos)

C1_FirstOccurrence ==
    /\ DOMAIN found_tombamentos = UNION { FileKeys(FilesDone[i]) : i \in 1..file_pos }
    /\ \A k \in DOMAIN found_tombamentos :
           found_tombamentos[k] =
               extract_room_from_filename(FilesDone[FirstFileWith(FilesDone, k)].name)

C1_NeverRemapped ==
    \A k \in DOMAIN found_tombamentos :
        k \in DOMAIN found_tombamentos' /\ found_tombamentos'[k] = found_tombamentos[k]

\* C1: index construction is first-write-wins: after any processed prefix
\* of the enumeration every key maps to the location of the file of the
\* first row carrying it, and no step changes a stored location.
C1_FirstWriteWins == []C1_FirstOccurrence /\ [][C1_NeverRemapped]_vars

\* C1 witness: files "A" then "B", both carrying "100", indexed as "A"
C1_Witness ==
    /\ load_done
    /\ Len(disk.files) = 2
    /\ S100 \in FileKeys(disk.files[1]) /\ S100 \in FileKeys(disk.files[2])
    /\ extract_room_from_filename(disk.files[1].name) = <<"A">>
    /\ extract_room_from_filename(disk.files[2].name) = <<"B">>
    /\ found_tombamentos[S100] = <<"A">>

\* rows i and j of sheet s of file f exchanged
SwapRows(d, f, s, i, j) ==
    [d EXCEPT !.files[f].sheets[s] =
        [@ EXCEPT ![i] = d.files[f].sheets[s][j], ![j] = d.files[f].sheets[s][i]]]

\* files i and j exchanged in the processing order: each takes the other's
\* place in the folders
SwapFiles(d, i, j) ==
    [d EXCEPT !.files =
        [@ EXCEPT ![i] = [d.files[j] EXCEPT !.folder = d.files[i].folder],
                  ![j] = [d.files[i] EXCEPT !.folder = d.files[j].folder]]]

RowSwaps ==
    UNION { UNION { { <<f, s, i, j>> : i, j \in 1..Len(disk.files[f].sheets[s]) }
                    : s \in 1..Len(disk.files[f].sheets) }
            : f \in 1..Len(disk.files) }

\* two files that share key k and resolve to different locations
SharedKeySwaps ==
    { <<i, j, k>> \in (1..Len(disk.files)) \X (1..Len(disk.files))
                         \X (UNION { FileKeys(disk.files[n]) : n \in 1..Len(disk.files) }) :
        /\ i < j
        /\ k \in FileKeys(disk.files[i]) /\ k \in FileKeys(disk.files[j])
        /\ extract_room_from_filename(disk.files[i].name)
               # extract_room_from_filename(disk.files[j].name) }

C2_RowOrderIrrelevant ==
    \A sw \in RowSwaps :
        load_done => load_spreadsheet_data(SwapRows(disk, sw[1], sw[2], sw[3], sw[4])) = found_tombamentos

\* C2 as stated: the index is unchanged by permuting the rows of one file,
\* and exchanging two files that share a tombamento with different
\* locations changes the entry of that tombamento.
C2_Original ==
    load_done =>
        /\ C2_RowOrderIrrelevant
        /\ \A sw \in SharedKeySwaps :
               load_spreadsheet_data(SwapFiles(disk, sw[1], sw[2]))[sw[3]]
                   # found_tombamentos[sw[3]]

\* C2 amended: the index is unchanged by permuting the rows of one file;
\* exchanging two files that share a tombamento with different locations
\* changes its entry when no file processed before both carries it.
C2_Amended ==
    load_done =>
        /\ C2_RowOrderIrrelevant
        /\ \A sw \in SharedKeySwaps :
               (\A e \in 1..(sw[1] - 1) : sw[3] \notin FileKeys(disk.files[e]))
                   => load_spreadsheet_data(SwapFiles(disk, sw[1], sw[2]))[sw[3]]
                          # found_tombamentos[sw[3]]

\* C2 witness: a built index whose sources have a sheet with two different
\* rows and two files sharing a key first carried by the earlier of them
C2_Witness ==
    /\ load_done
    /\ \E sw \in RowSwaps :
           /\ ~SkippedRow(disk.files[sw[1]].sheets[sw[2]][sw[3]])
           /\ disk.files[sw[1]].sheets[sw[2]][sw[3]] # disk.files[sw[1]].sheets[sw[2]][sw[4]]
    /\ \E sw \in SharedKeySwaps :
           \A e \in 1..(sw[1] - 1) : sw[3] \notin FileKeys(disk.files[e])

\* a file list without the rows the extractor skips
WithoutSkipped(files) ==
    [i \in 1..Len(files) |->
        [files[i] EXCEPT !.sheets =
            [s \in 1..Len(@) |-> SelectSeq(@[s], LAMBDA row : ~SkippedRow(row))]]]

\* C3: no index key is empty, every key equals its trimmed form, and rows
\* with fewer than 3 cells or a None, 0, empty or blank tombamento cell
\* leave the records taken from the other rows as they are.
C3_NoEmptyKey ==
    /\ \A k \in DOMAIN found_tombamentos : k # <<>> /\ Strip(k) = k
    /\ found_tombamentos = LoadFiles(EmptyIndex, WithoutSkipped(FilesDone))

\* C3 witness: a sheet with a skipped row and a padded identifier was
\* indexed under the trimmed identifier
C3_Witness ==
    /\ load_done
    /\ \E f \in 1..Len(disk.files) :
        \E s \in 1..Len(disk.files[f].sheets) :
            LET rows == disk.files[f].sheets[s]
            IN /\ \E i \in 1..Len(rows) : SkippedRow(rows[i])
               /\ \E i \in 1..Len(rows) :
                      Len(rows[i]) >= 3 /\ rows[i][3] = StrCell(<<" ">> \o S100 \o <<" ">>)
    /\ S100 \in DOMAIN found_tombamentos

\* the rows processed so far: (file, row) for every row of the readable
\* files already enumerated and the first row_pos rows of the current file
ProcessedRows ==
    UNION { { <<f, r>> : r \in 1..Len(AllRows(disk.files[f].sheets)) } :
              f \in { n \in 1..file_pos :
                          EndsWith(disk.files[n].name, XLSX) /\ disk.files[n].readable } }
    \cup { <<file_pos + 1, r>> : r \in 1..row_pos }

ProcessedRow(p) == AllRows(disk.files[p[1]].sheets)[p[2]]

\* the processed rows that carry key k
Carriers(k) ==
    { p \in ProcessedRows :
        ~SkippedRow(ProcessedRow(p)) /\ Strip(PyStr(ProcessedRow(p)[3])) = k }

\* C20: at every point of index construction, after any prefix of files and
\* rows, the partial index is a valid index: its keys are exactly the
\* non-empty trimmed identifiers of the rows processed so far, each mapped
\* to the location of its first occurrence in that prefix.
C20_PartialIndexValid ==
    /\ DOMAIN found_tombamentos =
           { Strip(PyStr(ProcessedRow(p)[3])) :
                 p \in { q \in ProcessedRows : ~SkippedRow(ProcessedRow(q)) } }
    /\ \A k \in DOMAIN found_tombamentos :
           /\ k # <<>>
           /\ \E p \in Carriers(k) :
                  /\ \A q \in Carriers(k) : p[1] <= q[1]
                  /\ found_tombamentos[k] = extract_room_from_filename(disk.files[p[1]].name)

\* C20 witness: construction stands inside a later file, between two of its
\* rows, with keys of earlier files and of this file in the index
C20_Witness ==
    /\ ~load_done
    /\ file_pos >= 1 /\ row_pos >= 1
    /\ file_pos < Len(disk.files)
    /\ row_pos < Len(AllRows(disk.files[file_pos + 1].sheets))
    /\ \E k \in DOMAIN found_tombamentos : \E p \in Carriers(k) : p[1] <= file_pos
    /\ \E k \in DOMAIN found_tombamentos : \A p \in Carriers(k) : p[1] = file_pos + 1

\* the files that can be opened
ReadableOnly(files) == SelectSeq(files, LAMBDA file : file.readable)

\* the folders with every file that cannot be opened removed and every
\* missing folder present (and empty)
WithoutBadSources(d) ==
    [files |-> ReadableOnly(d.files), exists |-> [f \in SpreadsheetFolders |-> TRUE]]

\* C17: a file that cannot be opened or a folder that does not exist never
\* aborts index construction: it contributes no record, the records of the
\* readable sources are indexed as if the bad source were absent, and
\* until the index is returned there is a next file to take (the guard of
\* LoadStep) or the function can return (the guard of LoadReturn).
C17_BadSourcesTolerated ==
    /\ found_tombamentos = LoadFiles(EmptyIndex, ReadableOnly(FilesDone))
    /\ load_done => found_tombamentos = load_spreadsheet_data(WithoutBadSources(disk))
    /\ load_done \/ file_pos < Len(disk.files) \/ file_pos = Len(disk.files)

\* C17 witness: an index was returned that holds a key of a file enumerated
\* after a corrupt file, with a source folder missing
C17_Witness ==
    /\ load_done
    /\ \E f \in SpreadsheetFolders : ~disk.exists[f]
    /\ \E i, j \in 1..Len(disk.files) :
           /\ i < j
           /\ EndsWith(disk.files[i].name, XLSX) /\ ~disk.files[i].readable
           /\ \E k \in FileKeys(disk.files[j]) :
                  /\ k \in DOMAIN found_tombamentos
                  /\ \A e \in 1..(i - 1) : k \notin FileKeys(disk.files[e])

----------------------------------------------------------------------------
(* Reconciliation properties                                               *)

\* the index the last verification read
IndexUsed == lru_memo.data

\* C4: a candidate is marked found iff its trimmed identifier is a key of
\* the index; a found candidate carries exactly the indexed location, a
\* candidate that is not found carries no index location.
C4_FoundIffIndexed ==
    ran =>
        /\ Len(export_data) = Len(report_items)
        /\ \A i \in 1..Len(report_items) :
            LET t == report_items[i].tombamento
                e == export_data[i]
            IN /\ e.tombamento = t
               /\ e.status = (Strip(t) \in DOMAIN IndexUsed)
               /\ tombamento_results[t] = e.status
               /\ e.status => e.sala = IndexUsed[Strip(t)]
               /\ ~e.status => e.sala = NAO_ENCONTRADO
        /\ \A g \in 1..Len(itens_por_sala) :
            \A n \in 1..Len(itens_por_sala[g].itens) :
                LET x == itens_por_sala[g].itens[n]
                IN /\ x.sala = itens_por_sala[g].sala
                   /\ x.status = (x.tombamento \in DOMAIN IndexUsed)
                   /\ x.status => x.sala = IndexUsed[x.tombamento]
                   /\ ~x.status => x.sala = NAO_ENCONTRADO

\* C4 witness: a verification found one candidate and missed another
C4_Witness ==
    /\ ran
    /\ \E i, j \in 1..Len(export_data) :
           /\ export_data[i].status /\ export_data[i].sala = IndexUsed[export_data[i].tombamento]
           /\ ~export_data[j].status

\* C5: the reconciliation result has as many entries as the report has
\* candidates, also when a candidate id occurs more than once.
C5_SameCardinality ==
    ran =>
        /\ Cardinality(DOMAIN tombamento_results) = Len(report_items)
        /\ stats.total = Len(report_items)

ResultsUnchanged ==
    /\ tombamento_results' = tombamento_results
    /\ itens_por_sala' = itens_por_sala
    /\ export_data' = export_data
    /\ printed' = printed
    /\ stats' = stats

\* C6: a verification repeated with the same index and the same report
\* yields the results of the one before, whatever lookups and changes of
\* the search configuration happened in between.
C6_Deterministic ==
    [][(ran /\ lru_memo.hit /\ lru_memo'.data = lru_memo.data
            /\ report_items' = report_items) => ResultsUnchanged]_vars

\* C6 witness: results were presented, and a lookup and changes of both
\* search flags have happened since the session started
C6_Witness ==
    /\ ran /\ lru_memo.hit
    /\ export_data # <<>>
    /\ search_hits # <<>>
    /\ config.case_sensitive /\ ~config.partial_match

\* C7: once built, the index is not mutated by a verification or a lookup:
\* the memoised index keeps its keys and locations, and is the index that
\* get_spreadsheet_data_cached supplied.
C7_IndexReadOnly ==
    [][/\ lru_memo.hit => lru_memo' = lru_memo
       /\ lru_memo'.hit => lru_memo'.data = GetSpreadsheetDataCached.data]_vars

\* C7 witness: a verification with a missing candidate and a lookup ran on
\* a built index
C7_Witness ==
    /\ ran /\ lru_memo.hit
    /\ search_hits # <<>>
    /\ \E i \in 1..Len(export_data) : ~export_data[i].status

\* the printed lines as (candidate id, label) pairs
PrintedItems ==
    [i \in 1..Len(printed) |->
        [tombamento |-> printed[i].tombamento, denominacao |-> printed[i].denominacao]]

SalaOf(i) ==
    IF report_items[i].tombamento \in DOMAIN IndexUsed
    THEN IndexUsed[report_items[i].tombamento]
    ELSE NAO_ENCONTRADO

\* the report position at which the location of candidate i first occurs
FirstPos(i) ==
    CHOOSE p \in 1..i : SalaOf(p) = SalaOf(i) /\ \A q \in 1..(p - 1) : SalaOf(q) # SalaOf(i)

\* candidate j is printed before candidate i
PrintedBefore(j, i) ==
    \/ FirstPos(j) < FirstPos(i)
    \/ FirstPos(j) = FirstPos(i) /\ j < i

----------------------------------------------------------------------------
(* Lookup properties                                                       *)

\* a step of search_items: the only step that records a request
SearchStep == search_request' # NoRequest /\ config' = config /\ ran' = ran

\* the text of the searched cell: empty for an empty, None or 0 cell
SearchedText(row, column_index) ==
    IF Truthy(row[column_index + 1]) THEN Strip(PyStr(row[column_index + 1])) ELSE <<>>

\* the match predicate, one line per combination of the two flags
MatchPredicate(partial, sensitive, text, val) ==
    CASE partial /\ sensitive -> Contains(text, val)
      [] partial /\ ~sensitive -> Contains(Upper(text), Upper(val))
      [] ~partial /\ sensitive -> text = val
      [] OTHER -> Upper(text) = Upper(val)

\* the rows search_items can see: (file, sheet, data row) of every readable
\* .xlsx file, rows of fewer than 8 cells left out
ScannedRows ==
    UNION { UNION { { <<f, sh, r>> : r \in { n \in 1..Len(disk.files[f].sheets[sh]) :
                                              Len(disk.files[f].sheets[sh][n]) >= 8 } }
                    : sh \in 1..Len(disk.files[f].sheets) }
            : f \in { n \in 1..Len(disk.files) :
                        EndsWith(disk.files[n].name, XLSX) /\ disk.files[n].readable } }

RowAt(p) == disk.files[p[1]].sheets[p[2]][p[3]]

\* the scanned rows that satisfy the match predicate for request rq
MatchingRows(rq) ==
    { p \in ScannedRows :
        MatchPredicate(config.partial_match, config.case_sensitive,
                       SearchedText(RowAt(p), rq.column_index), Strip(rq.value)) }

\* enumeration order: files, then sheets, then rows
EnumBefore(q, p) ==
    \/ q[1] < p[1]
    \/ q[1] = p[1] /\ q[2] < p[2]
    \/ q[1] = p[1] /\ q[2] = p[2] /\ q[3] < p[3]

\* the result displayed for the row at p: data row r is sheet row r + 1
HitOf(p) ==
    [folder |-> disk.files[p[1]].folder, file |-> disk.files[p[1]].name,
     sheet |-> p[2], row_index |-> p[3] + 1, row |-> RowAt(p)]

\* C11: search_items reports every matching row of every readable source
\* (rows of at least 8 cells), in the order folders, files, sheets, rows,
\* each with its file, sheet and 1-based sheet row number; data rows start
\* at 2 and rows that are not reported keep their number.
C11_AllMatchesInOrder ==
    [][SearchStep =>
         LET hits == MatchingRows(search_request')
         IN /\ Len(search_hits') = Cardinality(hits)
            /\ \A p \in hits :
                   search_hits'[Cardinality({q \in hits : EnumBefore(q, p)}) + 1]
                       = HitOf(p)]_vars

\* C11 witness: matches of two files were reported, past a corrupt file and
\* a narrow sheet, one of them in sheet row 3 after a row that did not match
C11_Witness ==
    /\ Len(search_hits) >= 2
    /\ search_hits[1].file # search_hits[Len(search_hits)].file
    /\ \E n \in 1..Len(search_hits) :
           /\ search_hits[n].row_index = 3
           /\ \A m \in 1..Len(search_hits) :
                  search_hits[m].file = search_hits[n].file => search_hits[m].row_index # 2
    /\ \E f \in 1..Len(disk.files) : ~disk.files[f].readable
    /\ \E f \in 1..Len(disk.files) : disk.files[f].sheets # <<>>
           /\ disk.files[f].sheets[1] = NarrowSheet

\* row p is among the displayed results
Reported(hits, p) ==
    \E n \in 1..Len(hits) :
        /\ hits[n].folder = disk.files[p[1]].folder /\ hits[n].file = disk.files[p[1]].name
        /\ hits[n].sheet = p[2] /\ hits[n].row_index = p[3] + 1

\* C12: match mode and case sensitivity are independent: for each of the
\* four combinations a scanned row is reported iff (partial) the trimmed
\* search value is a substring of the trimmed cell text or (exact) they are
\* equal, both upper-cased iff case_sensitive is false.
C12_IndependentFlags ==
    [][SearchStep =>
         \A partial \in BOOLEAN, sensitive \in BOOLEAN :
             (config.partial_match = partial /\ config.case_sensitive = sensitive) =>
                 \A p \in ScannedRows :
                     Reported(search_hits', p)
                         <=> MatchPredicate(partial, sensitive,
                                 SearchedText(RowAt(p), search_request'.column_index),
                                 Strip(search_request'.value))]_vars

\* C12 witness: an exact, case-sensitive search reported a row and left out
\* a row that differs from the search value only in case or in extra text
C12_Witness ==
    /\ ~config.partial_match /\ config.case_sensitive
    /\ search_request # NoRequest
    /\ search_hits # <<>>
    /\ \A n \in 1..Len(search_hits) :
           SearchedText(search_hits[n].row, search_request.column_index)
               = Strip(search_request.value)
    /\ \E p \in ScannedRows :
           /\ ~Reported(search_hits, p)
           /\ Contains(Upper(SearchedText(RowAt(p), search_request.column_index)),
                       Upper(Strip(search_request.value)))

\* the .xlsx files of the folders that fail to open
FailedToOpen ==
    { f \in 1..Len(disk.files) :
        EndsWith(disk.files[f].name, XLSX) /\ ~disk.files[f].readable }

\* C18: sources skipped as unreadable are surfaced as a count of skipped
\* sources: after a lookup (and the index construction it starts) the
\* number of skips reported equals the number of files that failed to
\* open. Every "Erro ao abrir arquivo" warning counts as one reported skip.
C18_SkipCountReported ==
    search_request # NoRequest => Len(open_errors) = Cardinality(FailedToOpen)

\* the export list a reconciliation of report against index yields
ExpectedExport(index, report) ==
    [i \in 1..Len(report) |->
        [tombamento |-> report[i].tombamento, denominacao |-> report[i].denominacao,
         status |-> report[i].tombamento \in DOMAIN index,
         sala |-> IF report[i].tombamento \in DOMAIN index
                  THEN index[report[i].tombamento] ELSE NAO_ENCONTRADO]]

\* the index a verification reads in the current state
IndexToRead ==
    IF lru_memo.hit THEN lru_memo.data
    ELSE IF config.cache_enabled /\ CacheFileFresh THEN cache_file.data
    ELSE load_spreadsheet_data(disk)

\* C19: the loader thread is joined before any reconciliation result is
\* presented, on every path that presents results; the thread changes no
\* data, and the output is the reconciliation of the report against the
\* index whether the thread finished or failed and wherever it ran.
C19_JoinedBeforeResults ==
    [][/\ resultVars' # resultVars =>
            /\ pc = "joined" /\ loader \in {"finished", "failed"}
            /\ report_items = extract_items_from_pdf(pdf_text)
            /\ export_data' = ExpectedExport(IndexToRead, report_items)
            /\ Len(printed') = Len(report_items)
       /\ loader' # loader /\ loader # "none" /\ pc' = pc =>
            UNCHANGED <<report_items, resultVars, lru_memo, cache_file>>]_vars

\* C19 witness: results were presented after the loader thread had failed
C19_Witness ==
    /\ ran /\ pc = "idle" /\ loader = "failed"
    /\ export_data # <<>>
    /\ \E i \in 1..Len(export_data) : export_data[i].status

----------------------------------------------------------------------------
(* Report Item Extractor properties                                        *)

\* the leading digit run of a line
LeadingDigits(line) == SubSeq(line, 1, DigitRun(line, 1))

\* the positions of the date tokens that follow the id, whitespace, a
\* description that is not empty and whitespace
ItemDates(line) ==
    LET n == DigitRun(line, 1)
    IN { p \in 1..Len(line) :
           /\ n >= 6 /\ n < Len(line) /\ IsSpace(line[n + 1])
           /\ DateAt(line, p) /\ p > n + 1 /\ IsSpace(line[p - 1])
           /\ Strip(SubSeq(line, n + 1, p - 1)) # <<>> }

\* the item the claim gives for one line of text
ItemOfLine(raw) ==
    LET line == Strip(raw)
    IN IF line = <<>> \/ StartsWith(Lower(line), NUMERO_DE_SERIE) \/ ItemDates(line) = {}
       THEN <<>>
       ELSE LET first == CHOOSE p \in ItemDates(line) : \A q \in ItemDates(line) : p <= q
            IN << [tombamento |-> LeadingDigits(line),
                   denominacao |->
                       Strip(SubSeq(line, Len(LeadingDigits(line)) + 1, first - 1))] >>

RECURSIVE ItemsOfLines(_)
ItemsOfLines(lines) ==
    IF lines = <<>> THEN <<>> ELSE ItemOfLine(Head(lines)) \o ItemsOfLines(Tail(lines))

RECURSIVE ItemsOfPages(_)
ItemsOfPages(pages) ==
    IF pages = <<>> THEN <<>>
    ELSE (IF Head(pages) = <<>> THEN <<>> ELSE ItemsOfLines(Split(Head(pages), "\n")))
             \o ItemsOfPages(Tail(pages))

\* C13: a line yields an item iff, trimmed and not a header, it starts with
\* at least 6 digits followed by whitespace, a non-empty description,
\* whitespace and a DD/MM/YYYY-shaped token; the id is the leading digit
\* run, the label the trimmed text up to the first such token; items come
\* in page-then-line order and every other line yields nothing.
C13_ItemIffShape == extracted => pdf_items = ItemsOfPages(pdf_text)

----------------------------------------------------------------------------
(* Annotation Mapper properties                                            *)

\* the text lines (block, line_no) of page pg
LinesOfPage(pg) == { <<doc[pg][i].block, doc[pg][i].line_no>> : i \in 1..Len(doc[pg]) }

\* line ln of page pg has a word that contains identifier t
LineHas(pg, ln, t) ==
    \E i \in 1..Len(doc[pg]) :
        /\ doc[pg][i].block = ln[1] /\ doc[pg][i].line_no = ln[2]
        /\ Contains(doc[pg][i].text, t)

\* the markers drawn for identifier t on line ln of page pg
MarkersAt(pg, ln, t) ==
    { n \in 1..Len(markers) :
        /\ markers[n].page = pg /\ markers[n].tombamento = t
        /\ markers[n].block = ln[1] /\ markers[n].line_no = ln[2] }

\* C14: exactly one marker per text line (page, block, line) that contains
\* a candidate's identifier, also when several words of the line contain
\* it; no marker for a page without a matching word.
C14_OneMarkerPerLine ==
    annotated =>
        \A t \in DOMAIN tombamento_results :
            /\ \A pg \in 1..Len(doc) : \A ln \in LinesOfPage(pg) :
                   Cardinality(MarkersAt(pg, ln, t)) = IF LineHas(pg, ln, t) THEN 1 ELSE 0
            /\ Cardinality({ n \in 1..Len(markers) : markers[n].tombamento = t })
                   = Cardinality({ <<pg, ln>> \in
                         UNION { {pg} \X LinesOfPage(pg) : pg \in 1..Len(doc) } :
                             LineHas(pg, ln, t) })

\* marker n was drawn for a word of its page that contains its identifier
\* and whose box is centred at the marker's anchor
AnchoredAtWord(n) ==
    /\ markers[n].page \in 1..Len(doc)
    /\ \E i \in 1..Len(doc[markers[n].page]) :
           LET w == doc[markers[n].page][i]
           IN /\ Contains(w.text, markers[n].tombamento)
              /\ w.block = markers[n].block /\ w.line_no = markers[n].line_no
              /\ 2 * markers[n].y = 10 * (w.y0 + w.y1)

\* C15: every marker is anchored ICON_X from the left edge of the page of
\* the matched word and at the vertical centre (y0 + y1) / 2 of that
\* word's box; size and stroke width are the same for all markers.
C15_AnchorAndGeometry ==
    annotated =>
        \A n \in 1..Len(markers) :
            /\ markers[n].x = 10 * ICON_X
            /\ AnchoredAtWord(n)
            /\ markers[n].size = ICON_SIZE
            /\ \A k \in 1..Len(markers[n].lines) : markers[n].lines[k].width = STROKE
            /\ \A m \in 1..Len(markers) :
                   /\ markers[m].x = markers[n].x /\ markers[m].size = markers[n].size
                   /\ markers[m].lines[1].width = markers[n].lines[1].width

\* C15 witness: markers on two pages, at two different heights
C15_Witness ==
    /\ annotated
    /\ \E n, m \in 1..Len(markers) :
           markers[n].page # markers[m].page /\ markers[n].y # markers[m].y

\* a two-segment checkmark: the second stroke starts where the first ends
\* and rises to the right above the anchor
IsCheck(g) ==
    /\ Len(g) = 2
    /\ g[1].to = g[2].from
    /\ g[1].from[1] < g[1].to[1] /\ g[2].from[1] < g[2].to[1]
    /\ g[2].to[2] < g[1].from[2] /\ g[1].from[2] < g[1].to[2]

\* a two-segment cross: the two diagonals of one square
IsCross(g) ==
    /\ Len(g) = 2
    /\ g[1].from[1] = g[2].from[1] /\ g[1].to[1] = g[2].to[1]
    /\ g[1].from[2] = g[2].to[2] /\ g[1].to[2] = g[2].from[2]
    /\ g[1].from[1] < g[1].to[1] /\ g[1].from[2] < g[1].to[2]

\* C16: glyph and colour of a marker depend only on the candidate's found
\* flag: a green two-segment checkmark if found, a red two-segment cross
\* if not; all markers of one candidate agree on every page.
C16_GlyphByFoundFlag ==
    annotated =>
        /\ \A n \in 1..Len(markers) :
               LET found == tombamento_results[markers[n].tombamento]
                   g == markers[n].lines
               IN /\ found => IsCheck(g) /\ \A k \in 1..2 : g[k].color = GREEN
                  /\ ~found => IsCross(g) /\ \A k \in 1..2 : g[k].color = RED
        /\ \A n, m \in 1..Len(markers) :
               markers[n].tombamento = markers[m].tombamento =>
                   \A k \in 1..2 :
                       /\ markers[n].lines[k].color = markers[m].lines[k].color
                       /\ markers[n].lines[k].to[1] - markers[n].lines[k].from[1]
                              = markers[m].lines[k].to[1] - markers[m].lines[k].from[1]
                       /\ markers[n].lines[k].to[2] - markers[n].lines[k].from[2]
                              = markers[m].lines[k].to[2] - markers[m].lines[k].from[2]

\* C16 witness: a found and a missing candidate were both marked, one of
\* them on two pages
C16_Witness ==
    /\ annotated
    /\ \E n, m \in 1..Len(markers) :
           tombamento_results[markers[n].tombamento]
               /\ ~tombamento_results[markers[m].tombamento]
    /\ \E n, m \in 1..Len(markers) :
           markers[n].tombamento = markers[m].tombamento /\ markers[n].page # markers[m].page

----------------------------------------------------------------------------
(* Location Resolver properties                                            *)

SALA12 == <<"S","A","L","A"," ","1","2">>
ALMOXARIFADO == <<"A","L","M","O","X","A","R","I","F","A","D","O">>
SALA12_PROF_JOAO_2024 ==
    SALA12 \o <<"_","P","R","O","F">> \o <<"_","J","O","A","O">>
           \o <<" ","(","2","0","2","4",")">>

\* the length of the longest prefix of parts in which no token at
\* position >= 2 contains a keyword
LongestRoomPrefix(parts) ==
    LET allowed(n) == \A i \in 2..n : ~HasRoomKeyword(parts[i])
    IN CHOOSE n \in 0..Len(parts) :
           allowed(n) /\ \A m \in 0..Len(parts) : allowed(m) => m <= n

\* C9: when tokens survive, the resolver returns the space-joined longest
\* prefix of the tokens in which no token from the second on contains a
\* denylist keyword (case-insensitively); the first token is always kept;
\* "SALA 12_PROF_JOAO (2024)" gives "SALA 12", "ALMOXARIFADO" is unchanged.
C9_LongestPrefix ==
    resolved =>
        LET parts == RoomParts(filename)
        IN /\ parts # <<>> =>
                /\ room = Join(SubSeq(parts, 1, LongestRoomPrefix(parts)), <<" ">>)
                /\ LongestRoomPrefix(parts) >= 1
                /\ Len(room) >= Len(parts[1])
                /\ SubSeq(room, 1, Len(parts[1])) = parts[1]
           /\ filename = SALA12_PROF_JOAO_2024 => room = SALA12
           /\ filename = ALMOXARIFADO => room = ALMOXARIFADO

\* C9 witness: the spec's example was resolved, dropping PROF and JOAO
C9_Witness ==
    /\ resolved
    /\ filename = SALA12_PROF_JOAO_2024
    /\ room = SALA12

\* C10: when no tokens survive splitting, the resolver returns the
\* extension-stripped file name unchanged.
C10_FallbackUnchanged ==
    (resolved /\ RoomParts(filename) = <<>>) => room = SplitExtRoot(filename)

----------------------------------------------------------------------------
(* Cache properties                                                        *)

\* a verification read the index through get_spreadsheet_data_cached
IndexRead == ran' /\ reports_processed' = reports_processed + 1

\* C21: get_spreadsheet_data_cached supplies a previously built index only
\* while that index is younger than cache_ttl and the cache is enabled;
\* otherwise the index it returns is built from the spreadsheets during the
\* call.
C21_SuppliedWithinTTL ==
    [][IndexRead =>
         /\ index_built' # now =>
                config.cache_enabled /\ now - index_built' < CacheTTL
         /\ index_built' = now => lru_memo'.data = load_spreadsheet_data(disk)]_vars

\* C26: the first read of the index after clear_cache returns an index
\* built from the spreadsheets during that read.
C26_RebuiltAfterClear ==
    [][(IndexRead /\ cleared) =>
         /\ index_built' = now
         /\ lru_memo'.data = load_spreadsheet_data(disk)]_vars

\* C22: two constructions of the index over the same folders, holding the
\* same files with the same contents, yield the same index, also for a
\* tombamento carried by two files of one folder.
C22_SameIndexEveryTime ==
    [][(load_done /\ load_done') => found_tombamentos' = found_tombamentos]_vars

----------------------------------------------------------------------------
(* Batching and statistics properties                                      *)

\* C23: batch_process hands every candidate to process_batch exactly once
\* and in report order, for the configured and for every other batch size
\* from 1 on, and the found flags, the groups per room and the export list
\* are those of one pass of process_batch over the whole report.
C23_BatchedEqualsSinglePass ==
    ran =>
        LET single == ProcessBatch(FreshAcc(IndexUsed), report_items)
        IN /\ Concat(Batches(report_items, config.batch_size)) = report_items
           /\ tombamento_results = single.tombamento_results
           /\ itens_por_sala = single.itens_por_sala
           /\ export_data = single.export_data
           /\ \A b \in 1..(Len(report_items) + 1) :
                  /\ Concat(Batches(report_items, b)) = report_items
                  /\ \A n \in 1..Len(Batches(report_items, b)) :
                         Batches(report_items, b)[n] # <<>>
                  /\ BatchProcess(FreshAcc(IndexUsed), Batches(report_items, b)) = single

\* C23 witness: a report of three candidates, found and not found, was
\* reconciled in a full batch of two and a short batch of one
C23_Witness ==
    /\ ran
    /\ Len(report_items) = 3 /\ config.batch_size = 2
    /\ Len(Batches(report_items, config.batch_size)) = 2
    /\ \E i, j \in 1..Len(export_data) : export_data[i].status /\ ~export_data[j].status
    /\ Len(itens_por_sala) >= 2

----------------------------------------------------------------------------
(* Index and lookup                                                        *)

\* C24: index and lookup agree on which rows are records: an exact,
\* case-sensitive lookup by tombamento (column 2) for a key of the index
\* built from the same folders reports at least one row, and such a lookup
\* reports rows only for a tombamento that is a key of the index.
C24_IndexAndLookupAgree ==
    [][(/\ SearchStep
        /\ search_request'.column_index = 2
        /\ ~config.partial_match /\ config.case_sensitive) =>
         LET key == Strip(search_request'.value)
             index == load_spreadsheet_data(disk)
         IN /\ key \in DOMAIN index => search_hits' # <<>>
            /\ search_hits' # <<>> => key \in DOMAIN index]_vars

----------------------------------------------------------------------------
(* Annotation: kinds of marker on one line                                 *)

\* C25: no text line (page, block, line) receives markers of both kinds:
\* the markers drawn for one line are all green checkmarks or all red
\* crosses, also when one candidate id is a substring of another.
C25_OneKindPerLine ==
    annotated =>
        \A n, m \in 1..Len(markers) :
            (/\ markers[n].page = markers[m].page
             /\ markers[n].block = markers[m].block
             /\ markers[n].line_no = markers[m].line_no) =>
                /\ IsCheck(markers[n].lines) <=> IsCheck(markers[m].lines)
                /\ markers[n].lines[1].color = markers[m].lines[1].color

----------------------------------------------------------------------------
(* Applying results, the verified PDF and the session counter              *)

\* C27: with backup_before_changes enabled, every save of a spreadsheet by
\* a verification is preceded, in the same verification, by a backup that
\* was created; a backup that is disabled, empty or failed prevents the
\* saves.
C27_BackupBeforeSave ==
    config.backup_before_changes =>
        \A i \in 1..Len(fs_log) :
            fs_log[i].op = "save" =>
                \E j \in 1..(i - 1) : fs_log[j].op = "backup_before"

\* the files the log records a save of
SavedFiles(log) == { log[i].file : i \in { n \in 1..Len(log) : log[n].op = "save" } }

\* the trimmed tombamento of the row at p is a key of results
HasResult(p, results) ==
    /\ Len(RowAt(p)) >= 3
    /\ RowAt(p)[3] # NoneCell
    /\ Strip(PyStr(RowAt(p)[3])) \in DOMAIN results

\* C28: a verification changes spreadsheets only when the user confirmed
\* both the apply dialog and the dangerous-operation dialog, else every
\* fill stays; when applied, the first cell of a row is filled only if the
\* row's trimmed tombamento is a key of the result, good iff found, and a
\* file is saved only if one of its rows was filled.
C28_AppliedOnlyWhenConfirmed ==
    [][(fills' # fills \/ fs_log' # fs_log) =>
         LET saved == SavedFiles(fs_log')
         IN /\ saved # {} => dialogs'.apply /\ dialogs'.danger
            /\ ~(dialogs'.apply /\ dialogs'.danger) => fills' = fills
            /\ \A p \in RowPositions(disk) :
                   fills'[p] =
                       IF p[1] \in saved /\ HasResult(p, tombamento_results')
                       THEN (IF tombamento_results'[Strip(PyStr(RowAt(p)[3]))]
                             THEN GOOD_FILL ELSE BAD_FILL)
                       ELSE fills[p]
            /\ \A f \in saved :
                   \E p \in RowPositions(disk) :
                       p[1] = f /\ HasResult(p, tombamento_results')]_vars

\* C28 witness: after both confirmations one file was saved with a good and
\* a bad fill, and a readable file without a matching row was not saved
C28_Witness ==
    /\ dialogs.apply /\ dialogs.danger
    /\ \E p, q \in RowPositions(disk) :
           /\ p[1] = q[1] /\ p[1] \in SavedFiles(fs_log)
           /\ fills[p] = GOOD_FILL /\ fills[q] = BAD_FILL
    /\ \E f \in 1..Len(disk.files) :
           /\ disk.files[f].readable /\ disk.files[f].sheets # <<>>
           /\ f \notin SavedFiles(fs_log)
           /\ \A p \in RowPositions(disk) : p[1] = f => fills[p] = NO_FILL

\* safe_execute caught an exception during the verification
HasError(log) == \E i \in 1..Len(log) : log[i].op = "error"

\* C29: a verified PDF that exists is never rewritten, whatever the new
\* result; reports_processed grows by exactly one in a verification that
\* reaches the end of search_items_from_pdf, and not at all for a report
\* without items or a verification an error aborted.
C29_NoOverwriteCountOnce ==
    [][/\ verified.exists => verified' = verified
       /\ reports_processed' # reports_processed =>
              /\ reports_processed' = reports_processed + 1
              /\ report_items # <<>>
              /\ ~HasError(fs_log')
              /\ verified'.exists
       /\ ((resultVars' # resultVars \/ fs_log' # fs_log) /\ ~HasError(fs_log')) =>
              reports_processed' = reports_processed + 1
       /\ (fs_log' # fs_log /\ HasError(fs_log')) =>
              UNCHANGED <<reports_processed, verified>>]_vars

\* C29 witness: a verification ended with a result other than the one the
\* existing verified PDF was made from
C29_Witness ==
    /\ ran /\ reports_processed >= 1
    /\ verified = OldVerified
    /\ tombamento_results # verified.results
    /\ \E k \in DOMAIN tombamento_results : tombamento_results[k]

----------------------------------------------------------------------------
(* Statistics of a verification                                            *)

\* the sum of the per-room counts
RECURSIVE SumCounts(_)
SumCounts(rooms) ==
    IF rooms = <<>> THEN 0 ELSE Head(rooms).count + SumCounts(Tail(rooms))

\* C30: after a verification found + not_found equals total, total equals
\* the number of candidates of the report, and the per-room counts sum to
\* total; the statistics of an empty result have total 0 and both
\* percentages 0.
C30_StatisticsConsistent ==
    /\ ran =>
          /\ stats.found + stats.not_found = stats.total
          /\ stats.total = Len(report_items)
          /\ SumCounts(stats.rooms) = stats.total
    /\ LET empty == generate_statistics(EmptyResults, <<>>)
       IN /\ empty.total = 0
          /\ empty.percentage_found = 0
          /\ empty.percentage_not_found = 0

============================================================================
